---- MODULE Spec2Model ----
(***************************************************************************)
(* Model of github.com/meikuraledutech/ai v1: the Gemini provider's        *)
(* validating, retrying Send and the request-log part of the PostgreSQL   *)
(* store it writes through.                                                *)
(*                                                                         *)
(* Go strings that the code scans or copies (prompt, content, response)    *)
(* are sequences of one-character strings; the empty Go string is << >>.   *)
(* A Go pointer that may be nil (to a Result, a Usage) is a sequence of    *)
(* length 0 (nil) or 1.  A Go error is the chain of its layers, outermost  *)
(* first, as errors.Unwrap walks it; the nil error is << >>.               *)
(***************************************************************************)
EXTENDS Integers, Sequences, FiniteSets, TLC

----------------------------------------------------------------------------
(* Program constants.                                                      *)

maxAttempts == 2

StatusSuccess == "success"
StatusFailed == "failed"
StatusPending == "pending"

FailReasonIncompleteJSON == "incomplete_json"
FailReasonNetworkError == "network_error"
FailReasonTimeout == "timeout"
FailReasonMaxRetries == "max_retries_exceeded"
FailReasonUnknownError == "unknown_error"

StatusOK == 200

----------------------------------------------------------------------------
(* Bounds of the model.                                                    *)

\* Largest spare capacity (cap - len) of the history slice a caller passes.
MaxSpare == 2

\* Largest number of rows earlier Sends left in ai_request_logs.
MaxPrior == 1

\* Callers that may run Send; Spec activates the first only.
Procs == {"c1", "c2"}

\* Texts the endpoint may generate.
Texts == { <<"{", "}">>, <<"{">>, <<"[", "]">>, <<"}", "{">>, <<"{", "[", "}">> }

\* Prompts a caller may pass.
Prompts == { << >>, <<"p">> }

----------------------------------------------------------------------------
(* Errors.  A layer is one error value; a chain lists a value and what it  *)
(* wraps.                                                                  *)

Layer(type, msg, code, timeout) ==
    [type |-> type, msg |-> msg, code |-> code, timeout |-> timeout]

ErrEmptyPrompt == Layer("errorString", "ai: prompt is empty", 0, FALSE)
ErrProviderFailed == Layer("errorString", "ai: provider error", 0, FALSE)

\* context.DeadlineExceeded: its type has Timeout() returning true.
DeadlineExceeded == Layer("deadlineExceededError", "context deadline exceeded", 0, TRUE)
\* context.Canceled is an errors.New value.
Canceled == Layer("errorString", "context canceled", 0, FALSE)
\* Network-level errors (net.OpError values) with and without the timeout flag.
NetTimeout == Layer("net.OpError", "i/o timeout", 0, TRUE)
NetRefused == Layer("net.OpError", "connection refused", 0, FALSE)
\* What io.ReadAll, json.Unmarshal and url.Parse fail with.
ReadFailed == Layer("errorString", "unexpected EOF", 0, FALSE)
SyntaxError == Layer("json.SyntaxError", "invalid character", 0, FALSE)
ParseFailed == Layer("url.Error", "parse", 0, FALSE)

\* fmt.Errorf with one %w: a fmt.wrapError value around the wrapped chain.
Errorf(msg, code, err) == <<Layer("wrapError", msg, code, FALSE)>> \o err

\* http.Client.Do reports every failure as a url.Error value around the cause.
urlError(cause) == <<Layer("url.Error", "Post", 0, FALSE)>> \o <<cause>>

\* errors.Is(err, target): some layer of the chain is the target value.
errorsIs(err, target) == \E i \in 1..Len(err) : err[i] = target

RECURSIVE Timeout(_)
\* The Timeout() method of an error value; url.Error asks what it wraps.
Timeout(err) ==
    IF err = << >> THEN FALSE
    ELSE IF err[1].type = "url.Error" THEN Timeout(Tail(err))
    ELSE err[1].timeout

\* err.(net.Error): the dynamic type of the value has Timeout and Temporary.
IsNetError(err) ==
    err # << >> /\ err[1].type \in {"net.OpError", "url.Error", "deadlineExceededError"}

\* classifyError categorizes an error to determine the fail reason.
classifyError(err) ==
    IF err = <<DeadlineExceeded>> THEN FailReasonTimeout
    ELSE IF IsNetError(err)
         THEN (IF Timeout(err) THEN FailReasonTimeout ELSE FailReasonNetworkError)
    ELSE IF err = <<Canceled>> THEN FailReasonNetworkError
    ELSE FailReasonUnknownError

----------------------------------------------------------------------------
(* Values.                                                                 *)

Usage(pt, rt, tt, tht) ==
    [PromptTokens |-> pt, ResponseTokens |-> rt, TotalTokens |-> tt, ThoughtTokens |-> tht]

ZeroUsage == Usage(0, 0, 0, 0)

\* Usage metadata the endpoint may report.
Usages == { Usage(1, 2, 3, 0), Usage(2, 1, 4, 1) }

Message(sid, role, content) == [SessionID |-> sid, Role |-> role, Content |-> content]

ZeroMessage == Message("", "", << >>)

Result(content, usage) == [Content |-> content, Usage |-> usage]

RetryPrompt == <<"r">>

\* Rules a caller may pass; OutputSchema is "" (none), "obj" (a JSON object),
\* "null" (the JSON text null), "arr" (a JSON array) or "bad" (text that is
\* not JSON).
Rules(sp, schema, mt) == [SystemPrompt |-> sp, OutputSchema |-> schema, MaxTokens |-> mt]

RulesSet ==
    { Rules(<< >>, "", 0), Rules(<<"s">>, "obj", 5), Rules(<<"s">>, "bad", 0),
      Rules(<< >>, "arr", 5), Rules(<< >>, "null", 0) }

\* json.Unmarshal of the schema string into a map[string]any returns no
\* error: for an object, and for null, which leaves the map nil.  An array
\* is JSON and cannot be stored in a map, other text is not JSON.
SchemaParses(schema) == schema \in {"obj", "null"}

----------------------------------------------------------------------------
(* Pure functions of gemini.go.                                            *)

RECURSIVE Scan(_, _, _)
RECURSIVE ScanClamped(_, _, _)
\* Faulty variant: a closing bracket with nothing open is not counted.
ScanClamped(s, curly, square) ==
    IF s = << >> THEN <<curly, square>>
    ELSE LET c == Head(s)
         IN ScanClamped(Tail(s),
                 IF c = "{" THEN curly + 1
                 ELSE IF c = "}" /\ curly > 0 THEN curly - 1 ELSE curly,
                 IF c = "[" THEN square + 1
                 ELSE IF c = "]" /\ square > 0 THEN square - 1 ELSE square)

\* The loop of validateJSON: the two counters after the whole text.
Scan(s, curly, square) ==
    IF s = << >> THEN <<curly, square>>
    ELSE LET c == Head(s)
         IN Scan(Tail(s),
                 IF c = "{" THEN curly + 1 ELSE IF c = "}" THEN curly - 1 ELSE curly,
                 IF c = "[" THEN square + 1 ELSE IF c = "]" THEN square - 1 ELSE square)

\* Faulty variant: only the curly counter decides.
validateJSONCurlyOnly(s) ==
    LET n == Scan(s, 0, 0)
    IN IF n[1] # 0
       THEN [valid |-> FALSE, failReason |-> FailReasonIncompleteJSON]
       ELSE [valid |-> TRUE, failReason |-> ""]

\* validateJSON checks if JSON is complete by counting brackets: (valid, failReason).
validateJSON(s) ==
    LET n == Scan(s, 0, 0)
    IN IF n[1] # 0 \/ n[2] # 0
       THEN [valid |-> FALSE, failReason |-> FailReasonIncompleteJSON]
       ELSE [valid |-> TRUE, failReason |-> ""]

\* One element of "contents".
Turn(role, text) == [role |-> role, text |-> text]

\* The role mapping of buildRequest.
MapRole(role) == IF role = "assistant" THEN "model" ELSE role

\* Faulty variant: the prompt is merged into a last history turn of role
\* user instead of being a turn of its own.
buildRequestMerged(rules, history, prompt) ==
    LET n == Len(history)
        mapped == [i \in 1..n |-> Turn(MapRole(history[i].Role), history[i].Content)]
    IN [contents |->
           IF n > 0 /\ history[n].Role = "user"
           THEN [mapped EXCEPT ![n] = Turn("user", history[n].Content \o prompt)]
           ELSE mapped \o <<Turn("user", prompt)>>,
        responseMimeType |-> "application/json",
        maxOutputTokens |-> IF rules.MaxTokens > 0 THEN <<rules.MaxTokens>> ELSE << >>,
        responseSchema |->
           IF rules.OutputSchema # "" /\ SchemaParses(rules.OutputSchema)
           THEN <<rules.OutputSchema>> ELSE << >>,
        systemInstruction |->
           IF rules.SystemPrompt # << >> THEN <<rules.SystemPrompt>> ELSE << >>]

\* Faulty variant: the schema string is sent whenever it is not empty.
buildRequestRawSchema(rules, history, prompt) ==
    [contents |->
        [i \in 1..Len(history) |-> Turn(MapRole(history[i].Role), history[i].Content)]
        \o <<Turn("user", prompt)>>,
     responseMimeType |-> "application/json",
     maxOutputTokens |-> IF rules.MaxTokens > 0 THEN <<rules.MaxTokens>> ELSE << >>,
     responseSchema |->
        IF rules.OutputSchema # "" THEN <<rules.OutputSchema>> ELSE << >>,
     systemInstruction |->
        IF rules.SystemPrompt # << >> THEN <<rules.SystemPrompt>> ELSE << >>]

\* buildRequest: contents from history then the prompt, and the options.
buildRequest(rules, history, prompt) ==
    [contents |->
        [i \in 1..Len(history) |-> Turn(MapRole(history[i].Role), history[i].Content)]
        \o <<Turn("user", prompt)>>,
     responseMimeType |-> "application/json",
     maxOutputTokens |-> IF rules.MaxTokens > 0 THEN <<rules.MaxTokens>> ELSE << >>,
     responseSchema |->
        IF rules.OutputSchema # "" /\ SchemaParses(rules.OutputSchema)
        THEN <<rules.OutputSchema>> ELSE << >>,
     systemInstruction |->
        IF rules.SystemPrompt # << >> THEN <<rules.SystemPrompt>> ELSE << >>]

\* A response body: json says whether it unmarshals into geminiResponse;
\* candidates lists, per candidate, the texts of its content parts.
Body(json, candidates, usage) ==
    [json |-> json, candidates |-> candidates, usageMetadata |-> usage]

\* The "usageMetadata" object of a response.
geminiUsage(prompt, candidates, total, thoughts) ==
    [promptTokenCount |-> prompt, candidatesTokenCount |-> candidates,
     totalTokenCount |-> total, thoughtsTokenCount |-> thoughts]

\* The usageMetadata with which the endpoint reports the counters of u.
Reporting(u) ==
    geminiUsage(u.PromptTokens, u.ResponseTokens, u.TotalTokens, u.ThoughtTokens)

\* Faulty variant: a response without candidate or parts is a result with
\* empty content.
parseResponseEmptyContent(body) ==
    IF ~body.json
    THEN [result |-> << >>, err |-> Errorf("ai: parse response", 0, <<SyntaxError>>)]
    ELSE IF Len(body.candidates) = 0 \/ Len(body.candidates[1]) = 0
    THEN [result |-> <<Result(<< >>, Usage(0, 0, 0, 0))>>, err |-> << >>]
    ELSE [result |-> <<Result(body.candidates[1][1],
                              Usage(body.usageMetadata.promptTokenCount,
                                    body.usageMetadata.candidatesTokenCount,
                                    body.usageMetadata.totalTokenCount,
                                    body.usageMetadata.thoughtsTokenCount))>>,
          err |-> << >>]

\* Faulty variant: the total is recomputed from the prompt and response counts.
parseResponseRecomputed(body) ==
    IF ~body.json
    THEN [result |-> << >>, err |-> Errorf("ai: parse response", 0, <<SyntaxError>>)]
    ELSE IF Len(body.candidates) = 0 \/ Len(body.candidates[1]) = 0
    THEN [result |-> << >>,
          err |-> Errorf("empty response from Gemini", 0, <<ErrProviderFailed>>)]
    ELSE [result |-> <<Result(body.candidates[1][1],
                              Usage(body.usageMetadata.promptTokenCount,
                                    body.usageMetadata.candidatesTokenCount,
                                    body.usageMetadata.promptTokenCount
                                        + body.usageMetadata.candidatesTokenCount,
                                    body.usageMetadata.thoughtsTokenCount))>>,
          err |-> << >>]

\* parseResponse: (result, err).
parseResponse(body) ==
    IF ~body.json
    THEN [result |-> << >>, err |-> Errorf("ai: parse response", 0, <<SyntaxError>>)]
    ELSE IF Len(body.candidates) = 0 \/ Len(body.candidates[1]) = 0
    THEN [result |-> << >>,
          err |-> Errorf("empty response from Gemini", 0, <<ErrProviderFailed>>)]
    ELSE [result |-> <<Result(body.candidates[1][1],
                              Usage(body.usageMetadata.promptTokenCount,
                                    body.usageMetadata.candidatesTokenCount,
                                    body.usageMetadata.totalTokenCount,
                                    body.usageMetadata.thoughtsTokenCount))>>,
          err |-> << >>]

----------------------------------------------------------------------------
(* What the network may do to one request.                                 *)

\* kind "do": client.Do fails with cause; "read": io.ReadAll fails;
\* "resp": a response with StatusCode and body arrives.
Outcome(kind, cause, code, body) ==
    [kind |-> kind, cause |-> cause, StatusCode |-> code, body |-> body]

Garbage == Body(FALSE, << >>, Reporting(ZeroUsage))

StatusCodes == {StatusOK, 201, 500}

Bodies ==
    {Garbage}
    \cup {Body(TRUE, c, Reporting(ZeroUsage)) : c \in { << >>, << << >> >> }}
    \cup {Body(TRUE, << <<t>> >>, Reporting(u)) : t \in Texts, u \in Usages}

Outcomes ==
    {Outcome("do", c, 0, Garbage) : c \in {DeadlineExceeded, Canceled, NetTimeout, NetRefused}}
    \cup {Outcome("read", ReadFailed, StatusOK, Garbage)}
    \cup {Outcome("resp", ReadFailed, code, Garbage) : code \in StatusCodes \ {StatusOK}}
    \cup {Outcome("resp", ReadFailed, StatusOK, b) : b \in Bodies}

\* Faulty variant: the status code is not looked at.
sendOnceDoAnyStatus(o) ==
    IF o.kind = "do"
    THEN [result |-> << >>, err |-> Errorf("ai: send request", 0, urlError(o.cause))]
    ELSE IF o.kind = "read"
    THEN [result |-> << >>, err |-> Errorf("ai: read response", 0, <<o.cause>>)]
    ELSE parseResponse(o.body)

\* Faulty variant: every status from 200 to 299 is taken as success.
sendOnceDo2xx(o) ==
    IF o.kind = "do"
    THEN [result |-> << >>, err |-> Errorf("ai: send request", 0, urlError(o.cause))]
    ELSE IF o.kind = "read"
    THEN [result |-> << >>, err |-> Errorf("ai: read response", 0, <<o.cause>>)]
    ELSE IF o.StatusCode < 200 \/ o.StatusCode > 299
    THEN [result |-> << >>, err |-> Errorf("status", o.StatusCode, <<ErrProviderFailed>>)]
    ELSE parseResponse(o.body)

\* sendOnce from client.Do on: (result, err) for what the network did.
sendOnceDo(o) ==
    IF o.kind = "do"
    THEN [result |-> << >>, err |-> Errorf("ai: send request", 0, urlError(o.cause))]
    ELSE IF o.kind = "read"
    THEN [result |-> << >>, err |-> Errorf("ai: read response", 0, <<o.cause>>)]
    ELSE IF o.StatusCode # StatusOK
    THEN [result |-> << >>, err |-> Errorf("status", o.StatusCode, <<ErrProviderFailed>>)]
    ELSE parseResponse(o.body)

----------------------------------------------------------------------------
(* The request-log table of the PostgreSQL store.                          *)

RequestLog(id, sid, prompt, response, attemptNumber, retryCount, status, failReason, errorMsg, usage) ==
    [ID |-> id, SessionID |-> sid, Prompt |-> prompt, Response |-> response,
     AttemptNumber |-> attemptNumber, RetryCount |-> retryCount,
     FinalStatus |-> status, FailReason |-> failReason,
     ErrorMessage |-> errorMsg, Usage |-> usage]

\* Faulty variant: the row is inserted with the status, fail reason, error
\* message and usage of the passed log.
AddRequestLogAsPassed(id, log) ==
    RequestLog(id, log.SessionID, log.Prompt, log.Response, log.AttemptNumber,
               log.RetryCount, log.FinalStatus, log.FailReason, log.ErrorMessage, log.Usage)

\* The row AddRequestLog inserts for log under the new id.
AddRequestLog(id, log) ==
    RequestLog(id, log.SessionID, log.Prompt, log.Response, log.AttemptNumber,
               log.RetryCount, StatusPending, "", << >>, ZeroUsage)

\* Faulty variant: a row is inserted when no row has the id.
UpdateRequestLogUpsert(table, id, response, status, failReason, errorMsg, retryCount, usage) ==
    LET u == IF usage # << >> THEN usage[1] ELSE ZeroUsage
    IN IF \E i \in 1..Len(table) : table[i].ID = id
       THEN [i \in 1..Len(table) |->
               IF table[i].ID = id
               THEN [table[i] EXCEPT !.Response = response, !.FinalStatus = status,
                                     !.FailReason = failReason, !.ErrorMessage = errorMsg,
                                     !.RetryCount = retryCount, !.Usage = u]
               ELSE table[i]]
       ELSE Append(table, RequestLog(id, "", << >>, response, 1, retryCount, status,
                                     failReason, errorMsg, u))

\* Faulty variant: the UPDATE also sets attempt_number from the retry count.
UpdateRequestLogBumpsAttempt(table, id, response, status, failReason, errorMsg, retryCount, usage) ==
    LET u == IF usage # << >> THEN usage[1] ELSE ZeroUsage
    IN [i \in 1..Len(table) |->
          IF table[i].ID = id
          THEN [table[i] EXCEPT !.Response = response, !.FinalStatus = status,
                                !.FailReason = failReason, !.ErrorMessage = errorMsg,
                                !.RetryCount = retryCount, !.Usage = u,
                                !.AttemptNumber = retryCount + 1]
          ELSE table[i]]

\* Faulty variant: the usage counters are not part of the UPDATE.
UpdateRequestLogNoUsage(table, id, response, status, failReason, errorMsg, retryCount, usage) ==
    [i \in 1..Len(table) |->
        IF table[i].ID = id
        THEN [table[i] EXCEPT !.Response = response, !.FinalStatus = status,
                              !.FailReason = failReason, !.ErrorMessage = errorMsg,
                              !.RetryCount = retryCount]
        ELSE table[i]]

\* The table after UpdateRequestLog's UPDATE ... WHERE id = $10.
UpdateRequestLog(table, id, response, status, failReason, errorMsg, retryCount, usage) ==
    LET u == IF usage # << >> THEN usage[1] ELSE ZeroUsage
    IN [i \in 1..Len(table) |->
          IF table[i].ID = id
          THEN [table[i] EXCEPT !.Response = response, !.FinalStatus = status,
                                !.FailReason = failReason, !.ErrorMessage = errorMsg,
                                !.RetryCount = retryCount, !.Usage = u]
          ELSE table[i]]

----------------------------------------------------------------------------
(* State.                                                                  *)

VARIABLES
    g,                \* the GeminiProvider: store attached, URL well-formed
    ai_sessions,      \* table ai_sessions: the row of each stored session, by id
    ai_request_logs,  \* table ai_request_logs: rows in insertion order
    caller,           \* the history slice callers pass: backing array and len
    active,           \* the callers that run Send in this behaviour
    send,             \* per caller: the locals of its Send call and its trace
    ai_messages,      \* table ai_messages: rows in insertion order
    pg,               \* per caller: its AddMessage / ListMessages calls on the store
    val,              \* a text and what validateJSON made of it
    mig               \* the embedded migrations, table ai_migrations, the schema, and a Migrate call

vars == <<g, ai_sessions, ai_request_logs, caller, active, send, ai_messages, pg, val, mig>>

\* What a Send does not touch, and what the message store does not touch.
messageVars == <<ai_messages, pg, val, mig>>
sendVars == <<g, ai_sessions, ai_request_logs, caller, active, send, mig>>
\* What a Migrate does not touch.
storeVars == <<g, ai_sessions, ai_request_logs, caller, active, send, ai_messages, pg, val>>

\* Histories a caller may hold (result of ListMessages, or hand-made).
Histories ==
    { << >>,
      <<Message("s1", "user", <<"q">>), Message("s1", "assistant", <<"{", "}">>)>>,
      <<Message("", "user", <<"q">>)>> }

\* Session hints a context may carry under "session_id": none or one id.
CtxHints == { << >>, <<"s2">> }

\* ctx.Err() when Send is called: nil, or the context is already canceled
\* or past its deadline.
CtxErrs == { << >>, <<Canceled>>, <<DeadlineExceeded>> }

\* A row an earlier Send left behind: success on the first attempt.
PriorRow(i) ==
    RequestLog(i, "s1", <<"p">>, <<"[", "]">>, 1, 0, StatusSuccess, "", << >>, Usage(1, 2, 3, 0))

\* A history slice inside Send: it shares the caller's backing array until
\* an append has to grow it.
Slice(shared, len, own) == [shared |-> shared, len |-> len, own |-> own]

\* The elements a slice shows.
View(h, arr) == IF h.shared THEN SubSeq(arr, 1, h.len) ELSE h.own

NoResult == [result |-> << >>, err |-> << >>]

\* The locals of a Send that has not been called, and its trace: the request
\* bodies sent, what the network did to each, what each sendOnce returned,
\* and the store calls made.
IdleSend ==
    [pc |-> "idle", ctxSession |-> << >>, rules |-> Rules(<< >>, "", 0),
     ctxErr |-> << >>,
     prompt |-> << >>, history |-> Slice(TRUE, 0, << >>), sessionID |-> "",
     logID |-> 0, attempt |-> 0, result |-> << >>, err |-> << >>,
     lastErr |-> << >>, lastResult |-> << >>, ret |-> NoResult,
     requests |-> << >>, net |-> << >>, outcomes |-> << >>, storeCalls |-> << >>]

\* A caller that has made no call on the message store.
IdlePG ==
    [pc |-> "idle", calls |-> 0, reported |-> << >>, result |-> << >>,
     sessionID |-> "", role |-> "", content |-> << >>, usage |-> << >>, seq |-> 0,
     ret |-> << >>]

\* No text validated.
IdleVal == [text |-> << >>, done |-> FALSE, out |-> [valid |-> FALSE, failReason |-> ""]]

\* One row of ai_sessions, without its id.
SessionRow(rules) ==
    [system_prompt |-> rules.SystemPrompt, output_schema |-> rules.OutputSchema,
     max_tokens |-> rules.MaxTokens]

\* The table ai_sessions with a session for each of the ids.
Sessions(ids) == [id \in ids |-> SessionRow(Rules(<<"s">>, "obj", 5))]

\* Migrations.  A migration is named by the number its file name starts
\* with ("001_initial_schema" is 1); names of this shape sort as their
\* numbers do.  The up SQL of a migration is told by the migration and by
\* how many times the file was revised.
MaxFiles == 2
MaxEdits == 1
MaxMigrates == 3

Up(name, rev) == [migration |-> name, rev |-> rev]

\* sha256.Sum256 printed with %x: equal for equal texts only.
sha256(up) == [sha256 |-> up]

\* The down SQL of a migration, a text of one statement; a migration
\* without a down file has the empty text.
Down(name) == <<[revert |-> name]>>

migrationFile(name, up, down) ==
    [Name |-> name, Up |-> up, Down |-> down, Checksum |-> sha256(up)]

migrationRecord(id, name, checksum) == [ID |-> id, Name |-> name, Checksum |-> checksum]

RECURSIVE sortByName(_, _, _)
\* sort.Slice of the migrations by name.
sortByName(fs, downs, names) ==
    IF names = {} THEN << >>
    ELSE LET n == CHOOSE x \in names : \A y \in names : x <= y
         IN <<migrationFile(n, fs[n], IF n \in downs THEN Down(n) ELSE << >>)>>
               \o sortByName(fs, downs, names \ {n})

\* loadMigrations: one migrationFile for each up file embedded, by name,
\* with the down file of that name if there is one.
loadMigrations(fs, downs) == sortByName(fs, downs, DOMAIN fs)

\* appliedMigrations: the records of ai_migrations by name; of two records
\* with a name the one read last stays.
appliedMigrations(table) ==
    [n \in {table[i].Name : i \in 1..Len(table)} |->
        LET last == CHOOSE i \in 1..Len(table) :
                        /\ table[i].Name = n
                        /\ \A j \in 1..Len(table) : table[j].Name = n => j <= i
        IN table[last]]

\* The locals of a Migrate call that has not begun.
IdleMigrate ==
    [pc |-> "idle", migrations |-> << >>, applied |-> << >>, i |-> 0, tx |-> << >>,
     err |-> << >>, ran |-> << >>, before |-> << >>, lastMigration |-> << >>,
     downSQL |-> << >>]

\* The embedded migrations of the repository, and a database that has them.
RepoFiles == [n \in 1..2 |-> Up(n, 0)]

Migrated(fs) ==
    LET ms == loadMigrations(fs, {})
    IN [fs |-> fs, downs |-> {}, exists |-> TRUE,
        ai_migrations |-> [i \in 1..Len(ms) |-> migrationRecord(i, ms[i].Name, ms[i].Checksum)],
        serial |-> Len(ms), schema |-> {ms[i].Up : i \in 1..Len(ms)},
        call |-> [p \in Procs |-> IdleMigrate], calls |-> 0, ret |-> << >>,
        migrated |-> <<fs>>]

\* A database without tables, and a binary with the migrations fs.
Fresh(fs) ==
    [fs |-> fs, downs |-> {}, exists |-> FALSE, ai_migrations |-> << >>, serial |-> 0,
     schema |-> {}, call |-> [p \in Procs |-> IdleMigrate], calls |-> 0, ret |-> << >>,
     migrated |-> << >>]

InitCommon ==
    /\ ai_messages = << >>
    /\ pg = [p \in Procs |-> IdlePG]
    /\ val = IdleVal
    /\ mig = Migrated(RepoFiles)
    /\ g \in [store : BOOLEAN, urlOK : BOOLEAN]
    /\ ai_sessions = Sessions({"s1", "s2"})
    /\ \E n \in 0..MaxPrior : ai_request_logs = [i \in 1..n |-> PriorRow(i)]
    /\ \E h \in Histories, spare \in 0..MaxSpare :
          caller = [arr |-> h \o [i \in 1..spare |-> ZeroMessage], len |-> Len(h)]
    /\ send = [p \in Procs |-> IdleSend]

Init ==
    /\ InitCommon
    /\ active = {"c1"}

----------------------------------------------------------------------------
(* Store calls made by Send.  db says whether the database executes the    *)
(* statement (connection up, context still live).                          *)

\* Whether the database executes a statement of p's Send: the store gets
\* the context of the Send, and executes nothing once that context is done.
Database(p) == IF send[p].ctxErr # << >> THEN {FALSE} ELSE BOOLEAN

\* One store call in the trace of a Send.
StoreCall(op, id, status, ok) == [op |-> op, id |-> id, status |-> status, ok |-> ok]

\* The guard around every UpdateRequestLog in Send.
Logging(p) == g.store /\ send[p].logID # 0

\* The table after the patch Send makes, if it makes one and db executes it.
Patched(p, db, response, status, failReason, errorMsg, retryCount, usage) ==
    IF Logging(p) /\ db
    THEN UpdateRequestLog(ai_request_logs, send[p].logID, response, status,
                          failReason, errorMsg, retryCount, usage)
    ELSE ai_request_logs

\* The trace after that patch.
Traced(p, db, status) ==
    IF Logging(p)
    THEN Append(send[p].storeCalls, StoreCall("UpdateRequestLog", send[p].logID, status, db))
    ELSE send[p].storeCalls

----------------------------------------------------------------------------
(* Send, one action per stretch between two blocking calls.                *)

\* Faulty variant: the precondition check never fires.
PromptEmptySkipped(prompt) == FALSE

\* The precondition check on the prompt.
PromptEmpty(prompt) == prompt = << >>

\* Faulty variant: off by one, the last attempt is retried too.
RetryOffByOne(attempt) == attempt <= maxAttempts

\* "Retry if not last attempt".
Retry(attempt) == attempt < maxAttempts

\* Faulty variant: the attempt number is passed as the retry count.
RetryCountOffByOne(attempt) == attempt

\* Faulty variant: retries are not counted.
RetryCountNone(attempt) == 0

\* The retry_count argument of every patch.
RetryCount(attempt) == attempt - 1


\* Faulty variant: the hint of the context is preferred to the history.
SendBeginHintFirst(p) ==
    /\ send[p].pc = "idle"
    /\ \E prompt \in Prompts, hint \in CtxHints, rules \in RulesSet, ctxErr \in CtxErrs :
          LET h == Slice(TRUE, caller.len, << >>)
              first == IF caller.len > 0 THEN caller.arr[1].SessionID ELSE ""
              sid == IF hint # << >> THEN hint[1] ELSE first
          IN send' = [send EXCEPT ![p] =
                IF PromptEmpty(prompt)
                THEN [IdleSend EXCEPT !.pc = "returned", !.ctxSession = hint,
                        !.rules = rules, !.prompt = prompt, !.history = h,
                        !.ret = [result |-> << >>, err |-> <<ErrEmptyPrompt>>]]
                ELSE [IdleSend EXCEPT !.pc = IF g.store THEN "addlog" ELSE "attempt",
                        !.ctxSession = hint, !.rules = rules, !.prompt = prompt,
                        !.ctxErr = ctxErr,
                        !.history = h, !.sessionID = sid, !.attempt = 1]]
    /\ UNCHANGED <<messageVars, g, ai_sessions, ai_request_logs, caller, active>>

\* Send up to the store call: the prompt check and the session reference.
SendBegin(p) ==
    /\ send[p].pc = "idle"
    /\ \E prompt \in Prompts, hint \in CtxHints, rules \in RulesSet, ctxErr \in CtxErrs :
          LET h == Slice(TRUE, caller.len, << >>)
              first == IF caller.len > 0 THEN caller.arr[1].SessionID ELSE ""
              sid == IF first = "" /\ hint # << >> THEN hint[1] ELSE first
          IN send' = [send EXCEPT ![p] =
                IF PromptEmpty(prompt)
                THEN [IdleSend EXCEPT !.pc = "returned", !.ctxSession = hint,
                        !.rules = rules, !.prompt = prompt, !.history = h,
                        !.ret = [result |-> << >>, err |-> <<ErrEmptyPrompt>>]]
                ELSE [IdleSend EXCEPT !.pc = IF g.store THEN "addlog" ELSE "attempt",
                        !.ctxSession = hint, !.rules = rules, !.prompt = prompt,
                        !.ctxErr = ctxErr,
                        !.history = h, !.sessionID = sid, !.attempt = 1]]
    /\ UNCHANGED <<messageVars, g, ai_sessions, ai_request_logs, caller, active>>

\* Faulty variant: an error of AddRequestLog is returned to the caller.
SendAddLogAbort(p) ==
    /\ send[p].pc = "addlog"
    /\ \E db \in Database(p) :
          LET id == Len(ai_request_logs) + 1
              log == RequestLog(0, send[p].sessionID, send[p].prompt, << >>, 1, 0,
                                StatusPending, "", << >>, ZeroUsage)
              ok == db /\ log.SessionID \in DOMAIN ai_sessions
          IN /\ ai_request_logs' =
                   IF ok THEN Append(ai_request_logs, AddRequestLog(id, log))
                   ELSE ai_request_logs
             /\ send' = [send EXCEPT ![p].pc = IF ok THEN "attempt" ELSE "returned",
                   ![p].logID = IF ok THEN id ELSE 0,
                   ![p].ret = IF ok THEN NoResult
                              ELSE [result |-> << >>, err |-> <<ErrProviderFailed>>],
                   ![p].storeCalls = Append(@, StoreCall("AddRequestLog", IF ok THEN id ELSE 0,
                                                          StatusPending, ok))]
    /\ UNCHANGED <<messageVars, g, ai_sessions, caller, active>>

\* Send's AddRequestLog call: the row is inserted unless the database fails
\* or session_id references no session.
SendAddLog(p) ==
    /\ send[p].pc = "addlog"
    /\ \E db \in Database(p) :
          LET id == Len(ai_request_logs) + 1
              log == RequestLog(0, send[p].sessionID, send[p].prompt, << >>, 1, 0,
                                StatusPending, "", << >>, ZeroUsage)
              ok == db /\ log.SessionID \in DOMAIN ai_sessions
          IN /\ ai_request_logs' =
                   IF ok THEN Append(ai_request_logs, AddRequestLog(id, log))
                   ELSE ai_request_logs
             /\ send' = [send EXCEPT ![p].pc = "attempt",
                   ![p].logID = IF ok THEN id ELSE 0,
                   ![p].storeCalls = Append(@, StoreCall("AddRequestLog", IF ok THEN id ELSE 0,
                                                          StatusPending, ok))]
    /\ UNCHANGED <<messageVars, g, ai_sessions, caller, active>>

\* sendOnce up to client.Do: the request is built and, if its URL parses,
\* goes out.
SendAttempt(p) ==
    /\ send[p].pc = "attempt"
    /\ LET reqBody == buildRequest(send[p].rules, View(send[p].history, caller.arr),
                                   send[p].prompt)
       IN send' = [send EXCEPT ![p] =
             IF g.urlOK
             THEN [@ EXCEPT !.pc = "wait", !.requests = Append(@, reqBody)]
             ELSE [@ EXCEPT !.pc = "handle", !.result = << >>,
                     !.err = Errorf("ai: create request", 0, <<ParseFailed>>),
                     !.outcomes = Append(@, [result |-> << >>,
                         err |-> Errorf("ai: create request", 0, <<ParseFailed>>)])]]
    /\ UNCHANGED <<messageVars, g, ai_sessions, ai_request_logs, caller, active>>

\* What the network may do to the request p has sent: with a context that
\* is done, client.Do fails with ctx.Err() and obtains no response.
NetOutcomes(p) ==
    IF send[p].ctxErr # << >>
    THEN {Outcome("do", send[p].ctxErr[1], 0, Garbage)}
    ELSE Outcomes

\* ctx.Err() after client.Do: a Do that fails with the context's error
\* tells that the context is done from now on.
CtxErrAfter(p, o) ==
    IF o.kind = "do" /\ o.cause \in {Canceled, DeadlineExceeded} THEN <<o.cause>>
    ELSE send[p].ctxErr

\* sendOnce from client.Do on: the network's answer becomes (result, err).
SendResponse(p) ==
    /\ send[p].pc = "wait"
    /\ \E o \in NetOutcomes(p) :
          LET r == sendOnceDo(o)
          IN send' = [send EXCEPT ![p].pc = "handle", ![p].result = r.result,
                ![p].err = r.err, ![p].net = Append(@, o),
                ![p].outcomes = Append(@, r), ![p].ctxErr = CtxErrAfter(p, o)]
    /\ UNCHANGED <<messageVars, g, ai_sessions, ai_request_logs, caller, active>>

\* err.Error(): the messages of the chain.
ErrorText(err) == [i \in 1..Len(err) |-> err[i].msg]

\* Faulty variant: before the retry the error branch appends the two
\* synthetic turns, with the empty content of the failed attempt.
SendHandleErrorAppends(p) ==
    /\ send[p].pc = "handle"
    /\ send[p].err # << >>
    /\ \E db \in Database(p) :
          LET failReason == classifyError(send[p].err)
              retryCount == RetryCount(send[p].attempt)
              h == send[p].history
          IN /\ ai_request_logs' = Patched(p, db, << >>, StatusFailed, failReason,
                                            ErrorText(send[p].err), retryCount, << >>)
             /\ send' = [send EXCEPT ![p] =
                   IF Retry(send[p].attempt)
                   THEN [@ EXCEPT !.pc = "attempt", !.attempt = @ + 1,
                           !.lastErr = send[p].err,
                           !.history = Slice(FALSE, h.len + 2,
                               View(h, caller.arr)
                               \o <<Message("", "assistant", << >>),
                                     Message("", "user", RetryPrompt)>>),
                           !.storeCalls = Traced(p, db, StatusFailed)]
                   ELSE [@ EXCEPT !.pc = "returned", !.lastErr = send[p].err,
                           !.ret = [result |-> << >>, err |-> send[p].err],
                           !.storeCalls = Traced(p, db, StatusFailed)]]
    /\ UNCHANGED <<messageVars, g, ai_sessions, caller, active>>

\* Send on a failed sendOnce: patch to failed, then retry or return.
SendHandleError(p) ==
    /\ send[p].pc = "handle"
    /\ send[p].err # << >>
    /\ \E db \in Database(p) :
          LET failReason == classifyError(send[p].err)
              retryCount == RetryCount(send[p].attempt)
          IN /\ ai_request_logs' = Patched(p, db, << >>, StatusFailed, failReason,
                                            ErrorText(send[p].err), retryCount, << >>)
             /\ send' = [send EXCEPT ![p] =
                   IF Retry(send[p].attempt)
                   THEN [@ EXCEPT !.pc = "attempt", !.attempt = @ + 1,
                           !.lastErr = send[p].err,
                           !.storeCalls = Traced(p, db, StatusFailed)]
                   ELSE [@ EXCEPT !.pc = "returned", !.lastErr = send[p].err,
                           !.ret = [result |-> << >>, err |-> send[p].err],
                           !.storeCalls = Traced(p, db, StatusFailed)]]
    /\ UNCHANGED <<messageVars, g, ai_sessions, caller, active>>

\* Faulty variant: the return after the success patch is missing, so the
\* loop goes on as after a response that does not validate.
SendHandleValidNoReturn(p) ==
    /\ send[p].pc = "handle"
    /\ send[p].err = << >>
    /\ validateJSON(send[p].result[1].Content).valid
    /\ \E db \in Database(p) :
          LET result == send[p].result[1]
          IN /\ ai_request_logs' = Patched(p, db, result.Content, StatusSuccess, "", << >>,
                                            RetryCount(send[p].attempt), <<result.Usage>>)
             /\ send' = [send EXCEPT ![p].pc = "maxretries",
                   ![p].lastResult = send[p].result,
                   ![p].storeCalls = Traced(p, db, StatusSuccess)]
    /\ UNCHANGED <<messageVars, g, ai_sessions, caller, active>>

\* Send on a response that validates: patch to success and return it.
SendHandleValid(p) ==
    /\ send[p].pc = "handle"
    /\ send[p].err = << >>
    /\ validateJSON(send[p].result[1].Content).valid
    /\ \E db \in Database(p) :
          LET result == send[p].result[1]
          IN /\ ai_request_logs' = Patched(p, db, result.Content, StatusSuccess, "", << >>,
                                            RetryCount(send[p].attempt), <<result.Usage>>)
             /\ send' = [send EXCEPT ![p].pc = "returned",
                   ![p].ret = [result |-> send[p].result, err |-> << >>],
                   ![p].storeCalls = Traced(p, db, StatusSuccess)]
    /\ UNCHANGED <<messageVars, g, ai_sessions, caller, active>>

\* Faulty variant: the two turns are appended in the wrong order.
AppendTurnsSwapped(h, arr, a, b) ==
    IF h.shared /\ h.len + 2 <= Len(arr)
    THEN [history |-> Slice(TRUE, h.len + 2, << >>),
          arr |-> [i \in 1..Len(arr) |->
                     IF i = h.len + 1 THEN b ELSE IF i = h.len + 2 THEN a ELSE arr[i]]]
    ELSE [history |-> Slice(FALSE, h.len + 2, View(h, arr) \o <<b, a>>),
          arr |-> arr]

\* append(history, a, b): in place when the capacity allows, else a copy.
AppendTurns(h, arr, a, b) ==
    IF h.shared /\ h.len + 2 <= Len(arr)
    THEN [history |-> Slice(TRUE, h.len + 2, << >>),
          arr |-> [i \in 1..Len(arr) |->
                     IF i = h.len + 1 THEN a ELSE IF i = h.len + 2 THEN b ELSE arr[i]]]
    ELSE [history |-> Slice(FALSE, h.len + 2, View(h, arr) \o <<a, b>>),
          arr |-> arr]

\* Faulty variant: the two synthetic turns are appended inside the block
\* that is guarded by the store, so only a logging Send gets them.
SendHandleInvalidLoggedAppend(p) ==
    /\ send[p].pc = "handle"
    /\ send[p].err = << >>
    /\ ~validateJSON(send[p].result[1].Content).valid
    /\ \E db \in Database(p) :
          LET result == send[p].result[1]
              failReason == validateJSON(result.Content).failReason
              app == AppendTurns(send[p].history, caller.arr,
                                 Message("", "assistant", result.Content),
                                 Message("", "user", RetryPrompt))
              retry == Retry(send[p].attempt)
              grow == retry /\ Logging(p)
          IN /\ ai_request_logs' = Patched(p, db, result.Content, StatusPending, failReason,
                                            <<"JSON validation failed">>,
                                            RetryCount(send[p].attempt), <<result.Usage>>)
             /\ send' = [send EXCEPT ![p] =
                   IF retry
                   THEN [@ EXCEPT !.pc = "attempt", !.attempt = @ + 1,
                           !.lastResult = send[p].result,
                           !.history = IF grow THEN app.history ELSE @,
                           !.storeCalls = Traced(p, db, StatusPending)]
                   ELSE [@ EXCEPT !.pc = "maxretries", !.lastResult = send[p].result,
                           !.storeCalls = Traced(p, db, StatusPending)]]
             /\ caller' = IF grow THEN [caller EXCEPT !.arr = app.arr] ELSE caller
    /\ UNCHANGED <<messageVars, g, ai_sessions, active>>

\* Send on a response that does not validate: patch to pending, then retry
\* with the two synthetic turns or go on to the max-attempts exit.
SendHandleInvalid(p) ==
    /\ send[p].pc = "handle"
    /\ send[p].err = << >>
    /\ ~validateJSON(send[p].result[1].Content).valid
    /\ \E db \in Database(p) :
          LET result == send[p].result[1]
              failReason == validateJSON(result.Content).failReason
              app == AppendTurns(send[p].history, caller.arr,
                                 Message("", "assistant", result.Content),
                                 Message("", "user", RetryPrompt))
              retry == Retry(send[p].attempt)
          IN /\ ai_request_logs' = Patched(p, db, result.Content, StatusPending, failReason,
                                            <<"JSON validation failed">>,
                                            RetryCount(send[p].attempt), <<result.Usage>>)
             /\ send' = [send EXCEPT ![p] =
                   IF retry
                   THEN [@ EXCEPT !.pc = "attempt", !.attempt = @ + 1,
                           !.lastResult = send[p].result, !.history = app.history,
                           !.storeCalls = Traced(p, db, StatusPending)]
                   ELSE [@ EXCEPT !.pc = "maxretries", !.lastResult = send[p].result,
                           !.storeCalls = Traced(p, db, StatusPending)]]
             /\ caller' = IF retry THEN [caller EXCEPT !.arr = app.arr] ELSE caller
    /\ UNCHANGED <<messageVars, g, ai_sessions, active>>

\* Faulty variant: the exit after the last attempt makes no patch, so the
\* row stays as the attempt left it.
SendMaxRetriesNoPatch(p) ==
    /\ send[p].pc = "maxretries"
    /\ send' = [send EXCEPT ![p].pc = "returned",
          ![p].ret = [result |-> << >>,
                      err |-> Errorf("ai: JSON validation failed after attempts", 0,
                                     <<ErrProviderFailed>>)]]
    /\ UNCHANGED <<messageVars, g, ai_sessions, ai_request_logs, caller, active>>

\* Faulty variant: the last incomplete result is returned with the error.
SendMaxRetriesPartial(p) ==
    /\ send[p].pc = "maxretries"
    /\ \E db \in Database(p) :
          LET lastResult == send[p].lastResult[1]
          IN /\ ai_request_logs' = Patched(p, db, lastResult.Content, StatusFailed,
                                            FailReasonMaxRetries,
                                            <<"JSON validation failed after max retries">>,
                                            RetryCount(send[p].attempt), <<lastResult.Usage>>)
             /\ send' = [send EXCEPT ![p].pc = "returned",
                   ![p].ret = [result |-> send[p].lastResult,
                               err |-> Errorf("ai: JSON validation failed after attempts", 0,
                                              <<ErrProviderFailed>>)],
                   ![p].storeCalls = Traced(p, db, StatusFailed)]
    /\ UNCHANGED <<messageVars, g, ai_sessions, caller, active>>

\* Send's exit after the last attempt did not validate: patch to failed.
SendMaxRetries(p) ==
    /\ send[p].pc = "maxretries"
    /\ \E db \in Database(p) :
          LET lastResult == send[p].lastResult[1]
          IN /\ ai_request_logs' = Patched(p, db, lastResult.Content, StatusFailed,
                                            FailReasonMaxRetries,
                                            <<"JSON validation failed after max retries">>,
                                            RetryCount(send[p].attempt), <<lastResult.Usage>>)
             /\ send' = [send EXCEPT ![p].pc = "returned",
                   ![p].ret = [result |-> << >>,
                               err |-> Errorf("ai: JSON validation failed after attempts", 0,
                                              <<ErrProviderFailed>>)],
                   ![p].storeCalls = Traced(p, db, StatusFailed)]
    /\ UNCHANGED <<messageVars, g, ai_sessions, caller, active>>

Next ==
    \/ \E p \in active : SendBegin(p)
    \/ \E p \in active : SendAddLog(p)
    \/ \E p \in active : SendAttempt(p)
    \/ \E p \in active : SendResponse(p)
    \/ \E p \in active : SendHandleError(p)
    \/ \E p \in active : SendHandleValid(p)
    \/ \E p \in active : SendHandleInvalid(p)
    \/ \E p \in active : SendMaxRetries(p)

Spec == Init /\ [][Next]_vars

----------------------------------------------------------------------------
(* Two goroutines call Send on one provider with the same history slice.   *)

\* What the network does to the requests of concurrent Sends: complete text,
\* two incomplete texts, or a server error.
ConcOutcomes ==
    {Outcome("resp", ReadFailed, StatusOK,
             Body(TRUE, << <<t>> >>, Reporting(Usage(1, 2, 3, 0)))) :
        t \in { <<"{", "}">>, <<"{">>, <<"{", "[", "}">> }}
    \cup {Outcome("resp", ReadFailed, 500, Garbage)}

\* The arguments and the network of the concurrent Sends.
Conc ==
    \A p \in Procs :
        /\ send[p].rules = Rules(<< >>, "", 0)
        /\ send[p].ctxSession = << >> /\ send[p].ctxErr = << >>
        /\ send[p].pc # "idle" => send[p].prompt # << >>
        /\ \A i \in 1..Len(send[p].net) : send[p].net[i] \in ConcOutcomes

InitConc ==
    /\ InitCommon
    /\ g.urlOK
    /\ active = Procs

NextConc ==
    \/ (\E p \in active : SendBegin(p)) /\ Conc'
    \/ (\E p \in active : SendAddLog(p)) /\ Conc'
    \/ (\E p \in active : SendAttempt(p)) /\ Conc'
    \/ (\E p \in active : SendResponse(p)) /\ Conc'
    \/ (\E p \in active : SendHandleError(p)) /\ Conc'
    \/ (\E p \in active : SendHandleValid(p)) /\ Conc'
    \/ (\E p \in active : SendHandleInvalid(p)) /\ Conc'
    \/ (\E p \in active : SendMaxRetries(p)) /\ Conc'

SpecConc == InitConc /\ [][NextConc]_vars

----------------------------------------------------------------------------
(* validateJSON on its own: a text is drawn, then validated.               *)

\* Longest text validated.
MaxLen == 4

\* Characters of a text: the four brackets, a quote, anything else.
Alphabet == {"{", "}", "[", "]", "\"", "a"}

\* The texts of at most n characters.
TextsUpTo(n) == UNION {[1..k -> Alphabet] : k \in 0..n}

\* A provider without a store, and no Send.
NoSend ==
    /\ g = [store |-> FALSE, urlOK |-> TRUE]
    /\ ai_request_logs = << >>
    /\ caller = [arr |-> << >>, len |-> 0]
    /\ send = [p \in Procs |-> IdleSend]

InitValidate ==
    /\ NoSend
    /\ ai_sessions = Sessions({})
    /\ active = {}
    /\ ai_messages = << >>
    /\ pg = [p \in Procs |-> IdlePG]
    /\ \E t \in TextsUpTo(MaxLen) : val = [IdleVal EXCEPT !.text = t]
    /\ mig = Migrated(RepoFiles)

\* One call of validateJSON.
Validate ==
    /\ ~val.done
    /\ val' = [val EXCEPT !.done = TRUE, !.out = validateJSON(val.text)]
    /\ UNCHANGED <<sendVars, ai_messages, pg>>

NextValidate == Validate

SpecValidate == InitValidate /\ [][NextValidate]_vars

----------------------------------------------------------------------------
(* The message table of the PostgreSQL store.                              *)

\* AddMessage calls one caller makes.
MaxAdds == 2

\* Largest token count the endpoint reports in a stored conversation turn.
MaxTok == 2

\* Session ids callers pass; "s9" has no row in ai_sessions.
SessionIDs == {"s1", "s2", "s9"}

\* What the database fails with: no connection, or a violated constraint.
ConnectError == Layer("pgconn.ConnectError", "failed to connect", 0, FALSE)
ForeignKeyViolation == Layer("pgconn.PgError", "ai_messages_session_id_fkey", 23503, FALSE)
UniqueViolation == Layer("pgconn.PgError", "ai_messages_session_id_seq_key", 23505, FALSE)

\* One row of ai_messages.
MessageRow(id, sid, seq, role, content, pt, rt, tt, tht) ==
    [id |-> id, session_id |-> sid, seq |-> seq, role |-> role, content |-> content,
     prompt_tokens |-> pt, response_tokens |-> rt, total_tokens |-> tt,
     thought_tokens |-> tht]

\* An ai.Message as the store returns it; Usage is a pointer.
StoredMessage(id, sid, seq, role, content, usage) ==
    [ID |-> id, SessionID |-> sid, Seq |-> seq, Role |-> role, Content |-> content,
     Usage |-> usage]

\* COALESCE((SELECT MAX(seq) FROM ai_messages WHERE session_id = sid), 0).
MaxSeq(table, sid) ==
    LET seqs == {table[i].seq : i \in {j \in 1..Len(table) : table[j].session_id = sid}}
    IN IF seqs = {} THEN 0 ELSE CHOOSE m \in seqs : \A x \in seqs : x <= m

\* Faulty variant: the table has no UNIQUE(session_id, seq).
UniqueSeqUnchecked(table, sid, seq) == TRUE

\* UNIQUE(session_id, seq): no row of the table has this pair.
UniqueSeq(table, sid, seq) ==
    \A i \in 1..Len(table) : ~(table[i].session_id = sid /\ table[i].seq = seq)

\* Faulty variant: session_id does not reference ai_sessions.
InsertErrorNoForeignKey(db, table, sessions, sid, seq) ==
    IF ~db THEN <<ConnectError>>
    ELSE IF ~UniqueSeq(table, sid, seq) THEN <<UniqueViolation>>
    ELSE << >>

\* The error of the INSERT of AddMessage, or none.
InsertError(db, table, sessions, sid, seq) ==
    IF ~db THEN <<ConnectError>>
    ELSE IF ~UniqueSeq(table, sid, seq) THEN <<UniqueViolation>>
    ELSE IF sid \notin DOMAIN sessions THEN <<ForeignKeyViolation>>
    ELSE << >>

\* The row AddMessage inserts.
AddMessage(id, sid, seq, role, content, usage) ==
    LET u == IF usage # << >> THEN usage[1] ELSE ZeroUsage
    IN MessageRow(id, sid, seq, role, content, u.PromptTokens, u.ResponseTokens,
                  u.TotalTokens, u.ThoughtTokens)

RECURSIVE OrderBySeq(_)
\* ORDER BY seq ASC.
OrderBySeq(rows) ==
    IF rows = << >> THEN << >>
    ELSE LET i == CHOOSE k \in 1..Len(rows) : \A j \in 1..Len(rows) : rows[k].seq <= rows[j].seq
         IN <<rows[i]>> \o OrderBySeq(SubSeq(rows, 1, i - 1) \o SubSeq(rows, i + 1, Len(rows)))

\* The message ListMessages makes of one row.
ScanMessage(r) ==
    StoredMessage(r.id, r.session_id, r.seq, r.role, r.content,
        IF r.prompt_tokens > 0 \/ r.response_tokens > 0
           \/ r.total_tokens > 0 \/ r.thought_tokens > 0
        THEN <<Usage(r.prompt_tokens, r.response_tokens, r.total_tokens, r.thought_tokens)>>
        ELSE << >>)

\* Faulty variant: the query has no WHERE session_id = $1.
ListMessagesAllSessions(table, sid) ==
    LET rows == OrderBySeq(table)
    IN [i \in 1..Len(rows) |-> ScanMessage(rows[i])]

\* ListMessages: the messages of the session, ordered by seq.
ListMessages(table, sid) ==
    LET InSession(r) == r.session_id = sid
        rows == OrderBySeq(SelectSeq(table, InSession))
    IN [i \in 1..Len(rows) |-> ScanMessage(rows[i])]

\* What a caller passes to AddMessage: the prompt, or in a conversation
\* turn after Send the result.
Args(p) ==
    IF pg[p].reported = << >>
    THEN {[role |-> "user", content |-> <<"p">>, usage |-> << >>]}
    ELSE IF pg[p].result = << >>
    THEN {[role |-> "user", content |-> <<"p">>, usage |-> << >>]}
    ELSE {[role |-> "assistant", content |-> pg[p].result[1].Content,
           usage |-> <<pg[p].result[1].Usage>>]}

\* Send returns the result of a complete response with the reported usage.
Receive(p) ==
    /\ pg[p].pc = "idle" /\ pg[p].reported # << >> /\ pg[p].result = << >>
    /\ pg' = [pg EXCEPT ![p].result =
                 sendOnceDo(Outcome("resp", ReadFailed, StatusOK,
                                    Body(TRUE, << << <<"{", "}">> >> >>,
                                         pg[p].reported[1]))).result]
    /\ UNCHANGED <<sendVars, ai_messages, val>>

\* AddMessage up to the start of its INSERT, whose subselect reads MAX(seq).
AddMessageCall(p) ==
    /\ pg[p].pc = "idle" /\ pg[p].calls < MaxAdds
    /\ \E sid \in SessionIDs, a \in Args(p) :
          pg' = [pg EXCEPT ![p] =
                   [@ EXCEPT !.pc = "insert", !.calls = @ + 1, !.sessionID = sid,
                             !.role = a.role, !.content = a.content, !.usage = a.usage,
                             !.seq = MaxSeq(ai_messages, sid) + 1,
                             !.ret = << >>]]
    /\ UNCHANGED <<sendVars, ai_messages, val>>

\* The INSERT of AddMessage takes effect or fails, and AddMessage returns.
AddMessageInsert(p) ==
    /\ pg[p].pc = "insert"
    /\ \E db \in BOOLEAN :
          LET id == <<p, pg[p].calls>>
              err == InsertError(db, ai_messages, ai_sessions, pg[p].sessionID, pg[p].seq)
          IN /\ ai_messages' =
                   IF err = << >>
                   THEN Append(ai_messages,
                               AddMessage(id, pg[p].sessionID, pg[p].seq, pg[p].role,
                                          pg[p].content, pg[p].usage))
                   ELSE ai_messages
             /\ pg' = [pg EXCEPT ![p] =
                   [IdlePG EXCEPT !.calls = pg[p].calls, !.reported = pg[p].reported,
                      !.result = pg[p].result,
                      !.ret = << [op |-> "AddMessage", sessionID |-> pg[p].sessionID,
                                  messages |->
                                     IF err = << >>
                                     THEN <<StoredMessage(id, pg[p].sessionID, pg[p].seq,
                                                          pg[p].role, pg[p].content,
                                                          pg[p].usage)>>
                                     ELSE << >>,
                                  err |-> IF err = << >> THEN << >>
                                          ELSE Errorf("ai: add message", 0, err)] >>]]
    /\ UNCHANGED <<sendVars, val>>

\* One ListMessages call.
ListMessagesCall(p) ==
    /\ pg[p].pc = "idle"
    /\ \E sid \in SessionIDs, db \in BOOLEAN :
          pg' = [pg EXCEPT ![p].ret =
                   << [op |-> "ListMessages", sessionID |-> sid,
                       messages |-> IF db THEN ListMessages(ai_messages, sid) ELSE << >>,
                       err |-> IF db THEN << >>
                               ELSE Errorf("ai: list messages", 0, <<ConnectError>>)] >>]
    /\ UNCHANGED <<sendVars, ai_messages, val>>

\* One caller stores a conversation turn whose usage the endpoint reports.
InitRoundTrip ==
    /\ NoSend
    /\ ai_sessions = Sessions({"s1", "s2"})
    /\ active = {"c1"}
    /\ ai_messages = << >>
    /\ val = IdleVal
    /\ mig = Migrated(RepoFiles)
    /\ \E a, b, c, d \in 0..MaxTok :
          pg = [p \in Procs |->
                  IF p = "c1" THEN [IdlePG EXCEPT !.reported = <<geminiUsage(a, b, c, d)>>]
                  ELSE IdlePG]

NextRoundTrip ==
    \/ \E p \in active : Receive(p)
    \/ \E p \in active : AddMessageCall(p)
    \/ \E p \in active : AddMessageInsert(p)
    \/ \E p \in active : ListMessagesCall(p)

SpecRoundTrip == InitRoundTrip /\ [][NextRoundTrip]_vars

\* Callers add and list messages concurrently.
InitMessages ==
    /\ NoSend
    /\ ai_sessions = Sessions({"s1", "s2"})
    /\ active = Procs
    /\ ai_messages = << >>
    /\ val = IdleVal
    /\ mig = Migrated(RepoFiles)
    /\ pg = [p \in Procs |-> IdlePG]

NextMessages ==
    \/ \E p \in active : AddMessageCall(p)
    \/ \E p \in active : AddMessageInsert(p)
    \/ \E p \in active : ListMessagesCall(p)

SpecMessages == InitMessages /\ [][NextMessages]_vars

----------------------------------------------------------------------------
(* The store called directly: sessions, messages and request logs.         *)

\* Store calls one caller makes that write to the database.
MaxCalls == 3

ErrSessionNotFound == Layer("errorString", "ai: session not found", 0, FALSE)

\* pgx.ErrNoRows, which Scan returns when the query has no row.
ErrNoRows == Layer("errorString", "no rows in result set", 0, FALSE)

\* An ai.Session.
Session(id, rules) == [ID |-> id, Rules |-> rules]

\* GetSession: (session, err).
GetSession(sessions, id, db) ==
    IF ~db
    THEN [session |-> << >>, err |-> Errorf("ai: get session", 0, <<ConnectError>>)]
    ELSE IF id \notin DOMAIN sessions
    THEN [session |-> << >>, err |-> Errorf("ai: get session", 0, <<ErrNoRows>>)]
    ELSE [session |-> <<Session(id, Rules(sessions[id].system_prompt,
                                          sessions[id].output_schema,
                                          sessions[id].max_tokens))>>,
          err |-> << >>]

\* Logs a caller may pass to AddRequestLog: as Send passes it, or with
\* every field set.
LogArgs ==
    {RequestLog(0, sid, <<"p">>, << >>, 1, 0, StatusPending, "", << >>, ZeroUsage) :
        sid \in SessionIDs}
    \cup {RequestLog(7, sid, <<"p">>, <<"{">>, 2, 1, StatusFailed, FailReasonTimeout, <<"e">>,
                      Usage(1, 2, 3, 0)) : sid \in SessionIDs}

\* What a caller may pass to UpdateRequestLog after the id.
PatchArgs ==
    { [response |-> <<"{", "}">>, status |-> StatusSuccess, failReason |-> "",
       errorMsg |-> << >>, retryCount |-> 1, usage |-> <<Usage(2, 1, 4, 1)>>],
      [response |-> << >>, status |-> StatusFailed, failReason |-> FailReasonTimeout,
       errorMsg |-> <<"e">>, retryCount |-> 0, usage |-> << >>] }

\* What the caller keeps of the call it made last.
Ret(op, fields) == << [op |-> op] @@ fields >>

\* One CreateSession call; uuid.New gives an id no session has.
CreateSessionCall(p) ==
    /\ pg[p].pc = "idle" /\ pg[p].calls < MaxCalls
    /\ \E rules \in RulesSet, db \in BOOLEAN, id \in SessionIDs \ DOMAIN ai_sessions :
          /\ ai_sessions' = IF db THEN (id :> SessionRow(rules)) @@ ai_sessions
                            ELSE ai_sessions
          /\ pg' = [pg EXCEPT ![p].calls = @ + 1,
                ![p].ret = Ret("CreateSession",
                    [session |-> IF db THEN <<Session(id, rules)>> ELSE << >>,
                     err |-> IF db THEN << >>
                             ELSE Errorf("ai: create session", 0, <<ConnectError>>)])]
    /\ UNCHANGED <<g, ai_request_logs, caller, active, send, ai_messages, val, mig>>

\* One GetSession call.
GetSessionCall(p) ==
    /\ pg[p].pc = "idle"
    /\ \E id \in SessionIDs, db \in BOOLEAN :
          pg' = [pg EXCEPT ![p].ret =
                   Ret("GetSession", [id |-> id] @@ GetSession(ai_sessions, id, db))]
    /\ UNCHANGED <<sendVars, ai_messages, val>>

\* One AddRequestLog call; uuid.New gives an id no row has.
AddRequestLogCall(p) ==
    /\ pg[p].pc = "idle" /\ pg[p].calls < MaxCalls
    /\ \E log \in LogArgs, db \in BOOLEAN :
          LET id == Len(ai_request_logs) + 1
              ok == db /\ log.SessionID \in DOMAIN ai_sessions
          IN /\ ai_request_logs' =
                   IF ok THEN Append(ai_request_logs, AddRequestLog(id, log))
                   ELSE ai_request_logs
             /\ pg' = [pg EXCEPT ![p].calls = @ + 1,
                   ![p].ret = Ret("AddRequestLog",
                       [arg |-> log,
                        log |-> IF ok
                                THEN <<[log EXCEPT !.ID = id, !.FinalStatus = StatusPending]>>
                                ELSE << >>,
                        err |-> IF ok THEN << >>
                                ELSE IF db THEN <<ForeignKeyViolation>>
                                ELSE <<ConnectError>>])]
    /\ UNCHANGED <<g, ai_sessions, caller, active, send, ai_messages, val, mig>>

\* One UpdateRequestLog call, with the id of a row or of none.
UpdateRequestLogCall(p) ==
    /\ pg[p].pc = "idle" /\ pg[p].calls < MaxCalls
    /\ \E id \in 1..(Len(ai_request_logs) + 1), a \in PatchArgs, db \in BOOLEAN :
          /\ ai_request_logs' =
                IF db THEN UpdateRequestLog(ai_request_logs, id, a.response, a.status,
                                            a.failReason, a.errorMsg, a.retryCount, a.usage)
                ELSE ai_request_logs
          /\ pg' = [pg EXCEPT ![p].calls = @ + 1,
                ![p].ret = Ret("UpdateRequestLog",
                    [id |-> id, arg |-> a,
                     err |-> IF db THEN << >> ELSE <<ConnectError>>])]
    /\ UNCHANGED <<g, ai_sessions, caller, active, send, ai_messages, val, mig>>

\* A database with one session, its earlier request logs and messages.
InitStore ==
    /\ NoSend
    /\ active = {"c1"}
    /\ ai_sessions = Sessions({"s1"})
    /\ \E n \in 0..MaxPrior : ai_request_logs = [i \in 1..n |-> PriorRow(i)]
    /\ \E n \in 0..MaxPrior :
          ai_messages = [i \in 1..n |->
                           AddMessage(<<"c0", i>>, "s1", i, "user", <<"q">>, << >>)]
    /\ val = IdleVal
    /\ mig = Migrated(RepoFiles)
    /\ pg = [p \in Procs |-> IdlePG]

NextStore ==
    \/ \E p \in active : CreateSessionCall(p)
    \/ \E p \in active : GetSessionCall(p)
    \/ \E p \in active : AddMessageCall(p)
    \/ \E p \in active : AddMessageInsert(p)
    \/ \E p \in active : ListMessagesCall(p)
    \/ \E p \in active : AddRequestLogCall(p)
    \/ \E p \in active : UpdateRequestLogCall(p)

SpecStore == InitStore /\ [][NextStore]_vars

----------------------------------------------------------------------------
(* Migrations (PGStore.Migrate).  Each statement the call sends is a step; *)
(* a statement either executes or fails with the error the database gives. *)

\* What a statement can fail with: no connection, or the SQL is rejected.
SQLRejected == Layer("pgconn.PgError", "syntax error", 42601, FALSE)
RecordedTwice == Layer("pgconn.PgError", "ai_migrations_name_key", 23505, FALSE)

\* The error of a Migrate that finds an applied migration revised.
ChecksumMismatch(name) == <<Layer("errorString", "ai: migration checksum mismatch", name, FALSE)>>

\* The names recorded in ai_migrations.
Recorded(table) == {table[i].Name : i \in 1..Len(table)}

\* The Migrate call ends with err.
MigrateEnd(p, err) == [mig EXCEPT !.call[p].pc = "done", !.call[p].err = err, !.call[p].tx = << >>]

\* ensureMigrationsTable, then loadMigrations.
MigrateEnsure(p) ==
    /\ mig.call[p].pc = "idle" /\ mig.calls < MaxMigrates
    /\ \E db \in BOOLEAN :
          mig' = IF db
                 THEN [mig EXCEPT !.exists = TRUE, !.calls = @ + 1,
                          !.call[p] = [IdleMigrate EXCEPT !.pc = "applied",
                                       !.migrations = loadMigrations(mig.fs, mig.downs),
                                       !.before = mig.ai_migrations]]
                 ELSE [mig EXCEPT !.calls = @ + 1,
                          !.call[p] = [IdleMigrate EXCEPT !.pc = "done",
                                       !.before = mig.ai_migrations,
                                       !.err = Errorf("ai: ensure migrations table", 0,
                                                      <<ConnectError>>)]]
    /\ UNCHANGED storeVars

\* appliedMigrations, and the loop begins.
MigrateApplied(p) ==
    /\ mig.call[p].pc = "applied"
    /\ \E db \in BOOLEAN :
          mig' = IF db
                 THEN [mig EXCEPT !.call[p].pc = "loop", !.call[p].i = 1,
                          !.call[p].applied = appliedMigrations(mig.ai_migrations)]
                 ELSE MigrateEnd(p, Errorf("ai: get applied migrations", 0, <<ConnectError>>))
    /\ UNCHANGED storeVars

\* MigrateNext without the look-up in applied: every migration is begun.
MigrateNextReapply(p) ==
    /\ mig.call[p].pc = "loop"
    /\ LET c == mig.call[p]
       IN IF c.i > Len(c.migrations) THEN mig' = MigrateEnd(p, << >>)
          ELSE LET m == c.migrations[c.i]
               IN \E db \in BOOLEAN :
                     mig' = IF db
                            THEN [mig EXCEPT !.call[p].pc = "up",
                                     !.call[p].tx = <<[schema |-> {}, records |-> << >>]>>]
                            ELSE MigrateEnd(p, Errorf("ai: begin migration", m.Name,
                                                   <<ConnectError>>))
    /\ UNCHANGED storeVars

\* MigrateNext without the comparison of checksums.
MigrateNextNoChecksum(p) ==
    /\ mig.call[p].pc = "loop"
    /\ LET c == mig.call[p]
       IN IF c.i > Len(c.migrations) THEN mig' = MigrateEnd(p, << >>)
          ELSE LET m == c.migrations[c.i]
               IN IF m.Name \in DOMAIN c.applied
                  THEN mig' = [mig EXCEPT !.call[p].i = @ + 1]
                  ELSE \E db \in BOOLEAN :
                          mig' = IF db
                                 THEN [mig EXCEPT !.call[p].pc = "up",
                                          !.call[p].tx = <<[schema |-> {}, records |-> << >>]>>]
                                 ELSE MigrateEnd(p, Errorf("ai: begin migration", m.Name,
                                                        <<ConnectError>>))
    /\ UNCHANGED storeVars

\* The head of the loop: the next migration is skipped, found revised, or
\* a transaction is begun for it; after the last one Migrate returns nil.
MigrateNext(p) ==
    /\ mig.call[p].pc = "loop"
    /\ LET c == mig.call[p]
       IN IF c.i > Len(c.migrations) THEN mig' = MigrateEnd(p, << >>)
          ELSE LET m == c.migrations[c.i]
               IN IF m.Name \in DOMAIN c.applied
                  THEN mig' = IF c.applied[m.Name].Checksum # m.Checksum
                              THEN MigrateEnd(p, ChecksumMismatch(m.Name))
                              ELSE [mig EXCEPT !.call[p].i = @ + 1]
                  ELSE \E db \in BOOLEAN :
                          mig' = IF db
                                 THEN [mig EXCEPT !.call[p].pc = "up",
                                          !.call[p].tx = <<[schema |-> {}, records |-> << >>]>>]
                                 ELSE MigrateEnd(p, Errorf("ai: begin migration", m.Name,
                                                        <<ConnectError>>))
    /\ UNCHANGED storeVars

\* Faulty variant: when the database rejects the up SQL the transaction is
\* rolled back and the loop goes on with the next migration.
MigrateUpContinues(p) ==
    /\ mig.call[p].pc = "up"
    /\ LET m == mig.call[p].migrations[mig.call[p].i]
       IN \E o \in { << >>, <<ConnectError>>, <<SQLRejected>> } :
             mig' = IF o = << >>
                    THEN [mig EXCEPT !.call[p].pc = "record", !.call[p].ran = Append(@, m.Name),
                             !.call[p].tx = <<[@[1] EXCEPT !.schema = {m.Up}]>>]
                    ELSE IF o = <<SQLRejected>>
                    THEN [mig EXCEPT !.call[p].pc = "loop", !.call[p].i = @ + 1,
                             !.call[p].tx = << >>, !.call[p].ran = Append(@, m.Name)]
                    ELSE MigrateEnd(p, Errorf("ai: run migration", m.Name, o))
    /\ UNCHANGED storeVars

\* tx.Exec of the up SQL; on an error the transaction is rolled back.
MigrateUp(p) ==
    /\ mig.call[p].pc = "up"
    /\ LET m == mig.call[p].migrations[mig.call[p].i]
       IN \E o \in { << >>, <<ConnectError>>, <<SQLRejected>> } :
             mig' = IF o = << >>
                    THEN [mig EXCEPT !.call[p].pc = "record", !.call[p].ran = Append(@, m.Name),
                             !.call[p].tx = <<[@[1] EXCEPT !.schema = {m.Up}]>>]
                    ELSE [MigrateEnd(p, Errorf("ai: run migration", m.Name, o))
                             EXCEPT !.call[p].ran = IF o = <<SQLRejected>>
                                                 THEN Append(@, m.Name) ELSE @]
    /\ UNCHANGED storeVars

\* UNIQUE(name): an INSERT of a name that an open transaction of another
\* call has inserted waits until that transaction ends.
InsertWaits(p, name) ==
    \E q \in Procs \ {p} :
        /\ mig.call[q].pc = "commit"
        /\ mig.call[q].migrations[mig.call[q].i].Name = name

\* MigrateRecord on a table whose name column is not UNIQUE: the INSERT is
\* executed whatever the table holds.
MigrateRecordNoUnique(p) ==
    /\ mig.call[p].pc = "record"
    /\ LET m == mig.call[p].migrations[mig.call[p].i]
           id == mig.serial + 1
       IN \E db \in BOOLEAN :
             mig' = IF ~db
                    THEN MigrateEnd(p, Errorf("ai: record migration", m.Name, <<ConnectError>>))
                    ELSE [mig EXCEPT !.call[p].pc = "commit", !.serial = id,
                             !.call[p].tx = <<[@[1] EXCEPT !.records =
                                 <<migrationRecord(id, m.Name, m.Checksum)>>]>>]
    /\ UNCHANGED storeVars

\* MigrateRecord on a connection without a transaction: the schema change
\* of the up SQL is there when the INSERT fails.
MigrateRecordNoRollback(p) ==
    /\ mig.call[p].pc = "record"
    /\ LET m == mig.call[p].migrations[mig.call[p].i]
           id == mig.serial + 1
       IN \E db \in BOOLEAN :
           /\ db => ~InsertWaits(p, m.Name)
           /\ mig' = IF ~db
                    THEN [MigrateEnd(p, Errorf("ai: record migration", m.Name, <<ConnectError>>))
                             EXCEPT !.schema = @ \cup mig.call[p].tx[1].schema]
                    ELSE IF m.Name \in Recorded(mig.ai_migrations)
                    THEN [MigrateEnd(p, Errorf("ai: record migration", m.Name, <<RecordedTwice>>))
                             EXCEPT !.serial = id, !.schema = @ \cup mig.call[p].tx[1].schema]
                    ELSE [mig EXCEPT !.call[p].pc = "commit", !.serial = id,
                             !.call[p].tx = <<[@[1] EXCEPT !.records =
                                 <<migrationRecord(id, m.Name, m.Checksum)>>]>>]
    /\ UNCHANGED storeVars

\* tx.Exec of the INSERT INTO ai_migrations; the id is the next value of
\* the table's sequence, which a rollback does not give back.
MigrateRecord(p) ==
    /\ mig.call[p].pc = "record"
    /\ LET m == mig.call[p].migrations[mig.call[p].i]
           id == mig.serial + 1
       IN \E db \in BOOLEAN :
           /\ db => ~InsertWaits(p, m.Name)
           /\ mig' = IF ~db
                    THEN MigrateEnd(p, Errorf("ai: record migration", m.Name, <<ConnectError>>))
                    ELSE IF m.Name \in Recorded(mig.ai_migrations)
                    THEN [MigrateEnd(p, Errorf("ai: record migration", m.Name, <<RecordedTwice>>))
                             EXCEPT !.serial = id]
                    ELSE [mig EXCEPT !.call[p].pc = "commit", !.serial = id,
                             !.call[p].tx = <<[@[1] EXCEPT !.records =
                                 <<migrationRecord(id, m.Name, m.Checksum)>>]>>]
    /\ UNCHANGED storeVars

\* tx.Commit: the schema change and the record persist together.
MigrateCommit(p) ==
    /\ mig.call[p].pc = "commit"
    /\ LET m == mig.call[p].migrations[mig.call[p].i]
           tx == mig.call[p].tx[1]
       IN \E db \in BOOLEAN :
             mig' = IF db
                    THEN [mig EXCEPT !.schema = @ \cup tx.schema,
                             !.ai_migrations = @ \o tx.records,
                             !.call[p].tx = << >>, !.call[p].i = @ + 1, !.call[p].pc = "loop"]
                    ELSE MigrateEnd(p, Errorf("ai: commit migration", m.Name, <<ConnectError>>))
    /\ UNCHANGED storeVars

\* Migrate returns.
MigrateReturn(p) ==
    /\ mig.call[p].pc = "done"
    /\ mig' = [mig EXCEPT !.call[p] = IdleMigrate,
                 !.ret = <<[op |-> "Migrate", err |-> mig.call[p].err]>>,
                 !.migrated = IF mig.call[p].err = << >> THEN <<mig.fs>> ELSE @]
    /\ UNCHANGED storeVars

\* A later build of the binary embeds a revised up file.
EditFile ==
    /\ \A p \in Procs : mig.call[p].pc = "idle"
    /\ mig.calls < MaxMigrates
    /\ \E n \in DOMAIN mig.fs :
          /\ mig.fs[n].rev < MaxEdits
          /\ mig' = [mig EXCEPT !.fs[n] = Up(n, @.rev + 1)]
    /\ UNCHANGED storeVars

\* A later build of the binary embeds one more migration.
AddFile ==
    /\ \A p \in Procs : mig.call[p].pc = "idle"
    /\ mig.calls < MaxMigrates
    /\ \E n \in (1..MaxFiles) \ DOMAIN mig.fs :
          mig' = [mig EXCEPT !.fs = (n :> Up(n, 0)) @@ @]
    /\ UNCHANGED storeVars

\* A database without tables and a binary with some of the migrations.
InitMigrate ==
    /\ NoSend
    /\ ai_sessions = Sessions({})
    /\ active = {"c1"}
    /\ ai_messages = << >>
    /\ pg = [p \in Procs |-> IdlePG]
    /\ val = IdleVal
    /\ \E names \in (SUBSET (1..MaxFiles)) \ {{}} : mig = Fresh([n \in names |-> Up(n, 0)])

NextMigrate ==
    \/ \E p \in active : MigrateEnsure(p)
    \/ \E p \in active : MigrateApplied(p)
    \/ \E p \in active : MigrateNext(p)
    \/ \E p \in active : MigrateUp(p)
    \/ \E p \in active : MigrateRecord(p)
    \/ \E p \in active : MigrateCommit(p)
    \/ \E p \in active : MigrateReturn(p)
    \/ EditFile
    \/ AddFile

SpecMigrate == InitMigrate /\ [][NextMigrate]_vars

\* Two callers (two instances of the service starting up) call Migrate on
\* one database without tables, with the same migration files.
InitMigrateConc ==
    /\ NoSend
    /\ ai_sessions = Sessions({})
    /\ active = {"c1", "c2"}
    /\ ai_messages = << >>
    /\ pg = [p \in Procs |-> IdlePG]
    /\ val = IdleVal
    /\ \E names \in (SUBSET (1..MaxFiles)) \ {{}} : mig = Fresh([n \in names |-> Up(n, 0)])

NextMigrateConc ==
    \/ \E p \in active : MigrateEnsure(p)
    \/ \E p \in active : MigrateApplied(p)
    \/ \E p \in active : MigrateNext(p)
    \/ \E p \in active : MigrateUp(p)
    \/ \E p \in active : MigrateRecord(p)
    \/ \E p \in active : MigrateCommit(p)
    \/ \E p \in active : MigrateReturn(p)

SpecMigrateConc == InitMigrateConc /\ [][NextMigrateConc]_vars

----------------------------------------------------------------------------
(* PGStore.Rollback, by statement as Migrate.                              *)

\* The error of a Rollback whose last migration has no down SQL.
NoDownMigration(name) == <<Layer("errorString", "ai: no down migration", name, FALSE)>>

\* The query of Rollback with ORDER BY id and no DESC.
LastMigrationOldest(table) ==
    IF table = << >> THEN << >>
    ELSE LET i == CHOOSE i \in 1..Len(table) : \A j \in 1..Len(table) : table[i].ID <= table[j].ID
         IN <<[ID |-> table[i].ID, Name |-> table[i].Name]>>

\* SELECT id, name FROM ai_migrations ORDER BY id DESC LIMIT 1.
LastMigration(table) ==
    IF table = << >> THEN << >>
    ELSE LET i == CHOOSE i \in 1..Len(table) : \A j \in 1..Len(table) : table[j].ID <= table[i].ID
         IN <<[ID |-> table[i].ID, Name |-> table[i].Name]>>

\* The loop of Rollback over the loaded migrations: the Down of the
\* migration named, the empty text when none has the name.
DownOf(migrations, name) ==
    IF \E i \in 1..Len(migrations) : migrations[i].Name = name
    THEN migrations[CHOOSE i \in 1..Len(migrations) : migrations[i].Name = name].Down
    ELSE << >>

\* The Rollback call ends with err.
RollbackEnd(p, err) ==
    [mig EXCEPT !.call[p].pc = "rolled", !.call[p].err = err, !.call[p].tx = << >>]

\* Rollback up to s.db.Begin: ensureMigrationsTable, the query of the last
\* record, loadMigrations, the search of the down SQL.  failing names the
\* statement the database does not execute.
RollbackLast(p) ==
    /\ mig.call[p].pc = "idle" /\ mig.calls < MaxMigrates
    /\ \E failing \in {"ensure", "query", "begin", "none"} :
          LET last == LastMigration(mig.ai_migrations)
              downSQL == IF last = << >> THEN << >>
                         ELSE DownOf(loadMigrations(mig.fs, mig.downs), last[1].Name)
              begun == [mig EXCEPT !.calls = @ + 1, !.exists = (failing # "ensure") \/ @,
                           !.call[p] = [IdleMigrate EXCEPT !.before = mig.ai_migrations,
                                           !.migrations = IF failing # "ensure" /\ failing # "query"
                                                             /\ last # << >>
                                                          THEN loadMigrations(mig.fs, mig.downs)
                                                          ELSE << >>]]
              end(err) == [begun EXCEPT !.call[p].pc = "rolled", !.call[p].err = err]
          IN mig' = IF failing = "ensure"
                    THEN end(Errorf("ai: ensure migrations table", 0, <<ConnectError>>))
                    ELSE IF failing = "query"
                    THEN end(Errorf("ai: get last migration", 0, <<ConnectError>>))
                    ELSE IF last = << >>
                    THEN end(Errorf("ai: get last migration", 0, <<ErrNoRows>>))
                    ELSE IF downSQL = << >>
                    THEN [end(NoDownMigration(last[1].Name)) EXCEPT !.call[p].lastMigration = last]
                    ELSE IF failing = "begin"
                    THEN [end(Errorf("ai: begin rollback", last[1].Name, <<ConnectError>>))
                             EXCEPT !.call[p].lastMigration = last, !.call[p].downSQL = downSQL]
                    ELSE [begun EXCEPT !.call[p].pc = "down", !.call[p].lastMigration = last,
                             !.call[p].downSQL = downSQL,
                             !.call[p].tx = <<[dropped |-> {}, deleted |-> {}]>>]
    /\ UNCHANGED storeVars

\* tx.Exec of the down SQL.
RollbackDown(p) ==
    /\ mig.call[p].pc = "down"
    /\ LET c == mig.call[p]
           name == c.lastMigration[1].Name
       IN \E o \in { << >>, <<ConnectError>>, <<SQLRejected>> } :
             mig' = IF o = << >>
                    THEN [mig EXCEPT !.call[p].pc = "delete", !.call[p].ran = Append(@, c.downSQL),
                             !.call[p].tx = <<[@[1] EXCEPT !.dropped = {c.downSQL[1].revert}]>>]
                    ELSE [RollbackEnd(p, Errorf("ai: run rollback", name, o))
                             EXCEPT !.call[p].ran = IF o = <<SQLRejected>>
                                                    THEN Append(@, c.downSQL) ELSE @]
    /\ UNCHANGED storeVars

\* tx.Exec of DELETE FROM ai_migrations WHERE id = $1.
RollbackDelete(p) ==
    /\ mig.call[p].pc = "delete"
    /\ LET last == mig.call[p].lastMigration[1]
       IN \E db \in BOOLEAN :
             mig' = IF db
                    THEN [mig EXCEPT !.call[p].pc = "commit rollback",
                             !.call[p].tx = <<[@[1] EXCEPT !.deleted = {last.ID}]>>]
                    ELSE RollbackEnd(p, Errorf("ai: remove migration record", last.Name,
                                               <<ConnectError>>))
    /\ UNCHANGED storeVars

\* tx.Commit: the schema change is gone and the record with it.
RollbackCommit(p) ==
    /\ mig.call[p].pc = "commit rollback"
    /\ LET tx == mig.call[p].tx[1]
           name == mig.call[p].lastMigration[1].Name
       IN \E db \in BOOLEAN :
             mig' = IF db
                    THEN [RollbackEnd(p, << >>) EXCEPT
                             !.schema = {u \in @ : u.migration \notin tx.dropped},
                             !.ai_migrations = SelectSeq(@, LAMBDA r : r.ID \notin tx.deleted)]
                    ELSE RollbackEnd(p, Errorf("ai: commit rollback", name, <<ConnectError>>))
    /\ UNCHANGED storeVars

\* Rollback returns.
RollbackReturn(p) ==
    /\ mig.call[p].pc = "rolled"
    /\ mig' = [mig EXCEPT !.call[p] = IdleMigrate,
                 !.ret = <<[op |-> "Rollback", err |-> mig.call[p].err,
                            lastMigration |-> mig.call[p].lastMigration]>>,
                 !.migrated = IF mig.call[p].err = << >> THEN << >> ELSE @]
    /\ UNCHANGED storeVars

\* A database without tables and a binary with some of the migrations,
\* some of them with a down file.
InitRollback ==
    /\ NoSend
    /\ ai_sessions = Sessions({})
    /\ active = {"c1"}
    /\ ai_messages = << >>
    /\ pg = [p \in Procs |-> IdlePG]
    /\ val = IdleVal
    /\ \E names \in (SUBSET (1..MaxFiles)) \ {{}} : \E downs \in SUBSET names :
          mig = [Fresh([n \in names |-> Up(n, 0)]) EXCEPT !.downs = downs]

\* A later build of the binary embeds one more migration and its down file.
AddFileDown ==
    /\ \A p \in Procs : mig.call[p].pc = "idle"
    /\ mig.calls < MaxMigrates
    /\ \E n \in (1..MaxFiles) \ DOMAIN mig.fs :
          mig' = [mig EXCEPT !.fs = (n :> Up(n, 0)) @@ @, !.downs = @ \cup {n}]
    /\ UNCHANGED storeVars

NextRollback ==
    \/ \E p \in active : MigrateEnsure(p)
    \/ \E p \in active : MigrateApplied(p)
    \/ \E p \in active : MigrateNext(p)
    \/ \E p \in active : MigrateUp(p)
    \/ \E p \in active : MigrateRecord(p)
    \/ \E p \in active : MigrateCommit(p)
    \/ \E p \in active : MigrateReturn(p)
    \/ \E p \in active : RollbackLast(p)
    \/ \E p \in active : RollbackDown(p)
    \/ \E p \in active : RollbackDelete(p)
    \/ \E p \in active : RollbackCommit(p)
    \/ \E p \in active : RollbackReturn(p)
    \/ AddFileDown

SpecRollback == InitRollback /\ [][NextRollback]_vars

\* Migrate and Rollback calls of one binary: the migration files stay as
\* they are.
NextSameFiles ==
    \/ \E p \in active : MigrateEnsure(p)
    \/ \E p \in active : MigrateApplied(p)
    \/ \E p \in active : MigrateNext(p)
    \/ \E p \in active : MigrateUp(p)
    \/ \E p \in active : MigrateRecord(p)
    \/ \E p \in active : MigrateCommit(p)
    \/ \E p \in active : MigrateReturn(p)
    \/ \E p \in active : RollbackLast(p)
    \/ \E p \in active : RollbackDown(p)
    \/ \E p \in active : RollbackDelete(p)
    \/ \E p \in active : RollbackCommit(p)
    \/ \E p \in active : RollbackReturn(p)

SpecSameFiles == InitRollback /\ [][NextSameFiles]_vars

----------------------------------------------------------------------------
(* PGStore.DropSchema, and CreateSchema (Migrate) after it.                *)

\* The tables the up SQL of the repository's migrations creates.
Tables(name) ==
    IF name = 1 THEN {"ai_sessions", "ai_messages"}
    ELSE IF name = 2 THEN {"ai_request_logs"}
    ELSE {}

\* The tables the statement of DropSchema names.
DropTables == {"ai_migrations", "ai_messages", "ai_sessions"}

\* The tables in the database.
Existing ==
    (IF mig.exists THEN {"ai_migrations"} ELSE {})
        \cup UNION {Tables(u.migration) : u \in mig.schema}

\* DropSchema: one Exec of three DROP TABLE IF EXISTS ... CASCADE.  A table
\* dropped loses its rows, and ai_migrations its id sequence; CASCADE takes
\* the foreign keys that refer to a dropped table, not the tables that
\* hold them.
DropSchema(p) ==
    /\ \A q \in Procs : mig.call[q].pc = "idle"
    /\ mig.calls < MaxMigrates
    /\ \E db \in BOOLEAN :
          IF db
          THEN /\ mig' = [mig EXCEPT !.calls = @ + 1,
                             !.exists = @ /\ "ai_migrations" \notin DropTables,
                             !.ai_migrations = IF "ai_migrations" \in DropTables
                                               THEN << >> ELSE @,
                             !.serial = IF "ai_migrations" \in DropTables THEN 0 ELSE @,
                             !.schema = {u \in @ : Tables(u.migration) \ DropTables # {}},
                             !.ret = <<[op |-> "DropSchema", err |-> << >>]>>,
                             !.migrated = << >>]
               /\ ai_sessions' = IF "ai_sessions" \in DropTables THEN Sessions({})
                                  ELSE ai_sessions
               /\ ai_messages' = IF "ai_messages" \in DropTables THEN << >> ELSE ai_messages
               /\ ai_request_logs' = IF "ai_request_logs" \in DropTables THEN << >>
                                      ELSE ai_request_logs
          ELSE /\ mig' = [mig EXCEPT !.calls = @ + 1,
                             !.ret = <<[op |-> "DropSchema", err |-> <<ConnectError>>]>>]
               /\ UNCHANGED <<ai_sessions, ai_messages, ai_request_logs>>
    /\ UNCHANGED <<g, caller, active, send, pg, val>>

\* A database with the repository's migrations applied, a session, and
\* earlier messages and request logs of it.
InitSchema ==
    /\ g = [store |-> FALSE, urlOK |-> TRUE]
    /\ caller = [arr |-> << >>, len |-> 0]
    /\ send = [p \in Procs |-> IdleSend]
    /\ active = {"c1"}
    /\ ai_sessions = Sessions({"s1"})
    /\ \E n \in 0..MaxPrior : ai_request_logs = [i \in 1..n |-> PriorRow(i)]
    /\ \E n \in 0..MaxPrior :
          ai_messages = [i \in 1..n |->
                           AddMessage(<<"c0", i>>, "s1", i, "user", <<"q">>, << >>)]
    /\ pg = [p \in Procs |-> IdlePG]
    /\ val = IdleVal
    /\ mig = Migrated(RepoFiles)

NextSchema ==
    \/ \E p \in active : DropSchema(p)
    \/ \E p \in active : MigrateEnsure(p)
    \/ \E p \in active : MigrateApplied(p)
    \/ \E p \in active : MigrateNext(p)
    \/ \E p \in active : MigrateUp(p)
    \/ \E p \in active : MigrateRecord(p)
    \/ \E p \in active : MigrateCommit(p)
    \/ \E p \in active : MigrateReturn(p)

SpecSchema == InitSchema /\ [][NextSchema]_vars

----------------------------------------------------------------------------
(* Vocabulary of the properties.                                           *)

RECURSIVE Count(_, _)
\* How often the character c occurs in the text s.
Count(s, c) ==
    IF s = << >> THEN 0
    ELSE (IF Head(s) = c THEN 1 ELSE 0) + Count(Tail(s), c)

\* The text has as many "{" as "}" and as many "[" as "]".
Balanced(s) == Count(s, "{") = Count(s, "}") /\ Count(s, "[") = Count(s, "]")

\* The four counters a body reports, as the Usage the documentation maps
\* them to.
Reported(body) ==
    Usage(body.usageMetadata.promptTokenCount, body.usageMetadata.candidatesTokenCount,
          body.usageMetadata.totalTokenCount, body.usageMetadata.thoughtsTokenCount)

\* The network delivered HTTP 200 with a body that has a first candidate
\* with a first part.
WellFormed(o) ==
    /\ o.kind = "resp" /\ o.StatusCode = 200 /\ o.body.json
    /\ Len(o.body.candidates) > 0 /\ Len(o.body.candidates[1]) > 0

\* The generated text of a well-formed answer.
TextOf(o) == o.body.candidates[1][1]

Complete(o) == WellFormed(o) /\ Balanced(TextOf(o))
Incomplete(o) == WellFormed(o) /\ ~Balanced(TextOf(o))

\* Send was called with a non-empty prompt and has returned.
Returned(p) == send[p].pc = "returned" /\ send[p].prompt # << >>

----------------------------------------------------------------------------
(* C1..C10: the contract of Send.                                          *)

\* C1: Send called with an empty prompt returns ErrEmptyPrompt itself and a
\* nil result, whatever rules, history and context it was given and whether
\* or not a store is attached; it sends no HTTP request and makes no store
\* call, so ai_request_logs holds exactly the rows it held before.
C1_EmptyPrompt ==
    \A p \in Procs :
        (send[p].pc # "idle" /\ send[p].prompt = << >>) =>
            /\ send[p].pc = "returned"
            /\ send[p].ret = [result |-> << >>, err |-> <<ErrEmptyPrompt>>]
            /\ send[p].requests = << >> /\ send[p].net = << >>
            /\ send[p].outcomes = << >> /\ send[p].storeCalls = << >>
            /\ \A i \in 1..Len(ai_request_logs) : ai_request_logs[i] = PriorRow(i)

\* C1 happens: an empty prompt was refused by a provider with a store, with
\* a non-empty history and a session hint in the context.
C1_Witness ==
    \E p \in Procs :
        /\ send[p].pc = "returned" /\ send[p].prompt = << >>
        /\ g.store /\ caller.len > 0 /\ send[p].ctxSession # << >>

\* The first attempt of p got a well-formed, bracket-balanced response.
FirstComplete(p) == Len(send[p].net) >= 1 /\ Complete(send[p].net[1])

\* C2 as stated: a Send with a non-empty prompt sends exactly 1 HTTP request
\* when the first attempt returns a well-formed, bracket-balanced response
\* and exactly 2 in every other case.
C2_AsStated ==
    \A p \in Procs :
        Returned(p) => Len(send[p].requests) = IF FirstComplete(p) THEN 1 ELSE 2

\* C2 amended: a Send with a non-empty prompt makes exactly 1 attempt when
\* the first attempt returns a well-formed, bracket-balanced response and
\* exactly 2 in every other case; every attempt sends one HTTP request,
\* unless the URL built from the model id and the API key does not parse:
\* then no request is sent at all.  There are never more than 2 requests.
C2_Attempts ==
    \A p \in Procs :
        /\ Len(send[p].requests) <= 2 /\ Len(send[p].outcomes) <= 2
        /\ Returned(p) =>
              /\ Len(send[p].outcomes) = IF FirstComplete(p) THEN 1 ELSE 2
              /\ Len(send[p].requests) = IF g.urlOK THEN Len(send[p].outcomes) ELSE 0

\* C2 happens: a Send returned after a second request that followed an
\* incomplete first response.
C2_Witness ==
    \E p \in Procs :
        /\ Returned(p) /\ Len(send[p].requests) = 2
        /\ Incomplete(send[p].net[1])

\* Position of a Send in the machine idle, attempting(1), attempting(2),
\* succeeded or failed.
Rank(s) == IF s.pc = "idle" THEN 0 ELSE IF s.pc = "returned" THEN 3 ELSE s.attempt

\* The Send has reached succeeded or failed: it returned, or its success
\* was recorded.
Terminal(s) ==
    \/ s.pc = "returned"
    \/ \E i \in 1..Len(s.storeCalls) : s.storeCalls[i].status = "success"

\* C3: every step of a Send moves forward in idle, attempting(1),
\* attempting(2), succeeded/failed, and there is no attempting(3); a request
\* is sent only when every earlier request of that Send has been answered
\* and handled, so at most one is in flight; once succeeded or failed is
\* reached the Send sends nothing, patches nothing and changes nothing.
C3_Sequential ==
    [][\A p \in Procs :
          LET s == send[p]
              t == send'[p]
          IN /\ Rank(t) >= Rank(s)
             /\ t.attempt <= 2
             /\ Len(t.requests) - Len(t.net) \in {0, 1}
             /\ Len(t.requests) > Len(s.requests) =>
                   /\ Len(t.requests) = Len(s.requests) + 1
                   /\ Len(s.net) = Len(s.requests)
                   /\ Len(s.outcomes) = Len(s.requests)
                   /\ Len(t.requests) = t.attempt
             /\ Terminal(s) => (t = s /\ ai_request_logs' = ai_request_logs)]_vars

\* C3 happens: a Send went through both attempts and reached its end.
C3_Witness ==
    \E p \in Procs :
        /\ send[p].pc = "returned" /\ Len(send[p].requests) = 2
        /\ Len(send[p].net) = 2 /\ send[p].attempt = 2

\* The row Send created for p, when it holds an id.
Row(p) == ai_request_logs[send[p].logID]

\* Every store call p made so far succeeded.
StoreOK(p) == \A i \in 1..Len(send[p].storeCalls) : send[p].storeCalls[i].ok

\* Every UpdateRequestLog call p made so far succeeded.
UpdatesOK(p) ==
    \A i \in 1..Len(send[p].storeCalls) :
        send[p].storeCalls[i].op = "UpdateRequestLog" => send[p].storeCalls[i].ok

\* Exactly one row belongs to the Send of p and it is the only row added.
SingleRow(p) ==
    /\ send[p].logID # 0
    /\ Len(ai_request_logs) = send[p].logID
    /\ Cardinality({i \in 1..Len(ai_request_logs) : ai_request_logs[i].ID = send[p].logID}) = 1
    /\ \A i \in 1..(send[p].logID - 1) : ai_request_logs[i] = PriorRow(i)

\* What C4 promises of a Send whose first response was complete.
C4_Promise(p) ==
    LET o == send[p].net[1]
    IN /\ send[p].ret = [result |-> <<Result(TextOf(o), Reported(o.body))>>, err |-> << >>]
       /\ Len(send[p].requests) = 1 /\ Len(send[p].outcomes) = 1
       /\ SingleRow(p)
       /\ Row(p).FinalStatus = "success" /\ Row(p).RetryCount = 0
       /\ Row(p).FailReason = ""
       /\ Row(p).Response = TextOf(o) /\ Row(p).Usage = Reported(o.body)

FirstIncomplete(p) == Len(send[p].net) >= 1 /\ Incomplete(send[p].net[1])

\* Send handled the first response and has not handled a second one.
BetweenAttempts(p) ==
    /\ send[p].attempt = 2 /\ Len(send[p].outcomes) = 1
    /\ send[p].pc \in {"attempt", "wait"}

\* What C5 promises of the row between the attempts.
C5_Pending(p) ==
    LET o == send[p].net[1]
    IN /\ Row(p).FinalStatus = "pending" /\ Row(p).FailReason = "incomplete_json"
       /\ Row(p).Response = TextOf(o) /\ Row(p).Usage = Reported(o.body)
       /\ Row(p).RetryCount = 0

\* What C5 promises when Send has returned.
C5_Final(p) ==
    LET o == send[p].net[2]
    IN /\ Row(p).FinalStatus = "success" /\ Row(p).RetryCount = 1
       /\ Row(p).Response = TextOf(o) /\ Row(p).Usage = Reported(o.body)

\* What C5 promises the caller.
C5_Return(p) ==
    LET o == send[p].net[2]
    IN /\ send[p].ret = [result |-> <<Result(TextOf(o), Reported(o.body))>>, err |-> << >>]
       /\ send[p].ret.result[1].Content # TextOf(send[p].net[1])

\* Incomplete text on attempt 1, complete text on attempt 2.
RetrySucceeded(p) ==
    /\ Returned(p) /\ Len(send[p].net) = 2
    /\ Incomplete(send[p].net[1]) /\ Complete(send[p].net[2])

CallerHistory == SubSeq(caller.arr, 1, caller.len)

\* The contents C6 expects in the attempt-2 request.
C6_Contents(h, incomplete, prompt) ==
    [i \in 1..Len(h) |->
        [role |-> IF h[i].Role = "assistant" THEN "model" ELSE "user",
         text |-> h[i].Content]]
    \o << [role |-> "model", text |-> incomplete],
          [role |-> "user", text |-> RetryPrompt],
          [role |-> "user", text |-> prompt] >>

\* C6: after incomplete text on attempt 1, the contents of the attempt-2
\* request are the caller's history with its roles mapped, a model turn with
\* exactly the incomplete text, a user turn asking to regenerate, and the
\* prompt as the last user turn: len(history)+3 turns, the history turns
\* being those of the attempt-1 request.
C6_RetryRequest ==
    \A p \in Procs :
        (Len(send[p].requests) = 2 /\ FirstIncomplete(p)) =>
            LET c == send[p].requests[2].contents
            IN /\ c = C6_Contents(CallerHistory, TextOf(send[p].net[1]), send[p].prompt)
               /\ Len(c) = caller.len + 3
               /\ SubSeq(c, 1, caller.len) = SubSeq(send[p].requests[1].contents, 1, caller.len)

\* C6 happens: the second request went out after incomplete text, for a
\* history that holds a user and an assistant turn.
C6_Witness ==
    \E p \in Procs :
        /\ Len(send[p].requests) = 2 /\ FirstIncomplete(p)
        /\ caller.len = 2

\* Incomplete text on both attempts.
AlwaysIncomplete(p) ==
    /\ Returned(p) /\ Len(send[p].net) = 2
    /\ Incomplete(send[p].net[1]) /\ Incomplete(send[p].net[2])

\* What C7 promises the caller.
C7_Return(p) ==
    /\ Len(send[p].requests) = 2 /\ Len(send[p].outcomes) = 2
    /\ send[p].ret.result = << >>
    /\ errorsIs(send[p].ret.err, ErrProviderFailed)

\* What C7 promises of the row.
C7_Final(p) ==
    LET o == send[p].net[2]
    IN /\ Row(p).FinalStatus = "failed" /\ Row(p).FailReason = "max_retries_exceeded"
       /\ Row(p).Response = TextOf(o) /\ Row(p).Usage = Reported(o.body)

Only500(p) ==
    \A i \in 1..Len(send[p].net) :
        send[p].net[i].kind = "resp" /\ send[p].net[i].StatusCode = 500

\* HTTP 500 on both attempts.
Always500(p) == Returned(p) /\ Len(send[p].net) = 2 /\ Only500(p)

\* What C8 promises the caller: the error of the last attempt, which names
\* the status.
C8_Return(p) ==
    /\ Len(send[p].requests) = 2 /\ Len(send[p].outcomes) = 2
    /\ send[p].ret.result = << >>
    /\ send[p].ret.err = send[p].outcomes[2].err
    /\ send[p].ret.err[1].code = 500

C9_AsStated ==
    \A p \in Procs :
        (Returned(p) /\ send[p].ret.err # << >>) => errorsIs(send[p].ret.err, ErrProviderFailed)

\* The fail reason the taxonomy gives the error an attempt produced.
Taxonomy(err) ==
    IF errorsIs(err, DeadlineExceeded) THEN "timeout"
    ELSE IF \E i \in 1..Len(err) : err[i].type = "net.OpError"
         THEN (IF \E i \in 1..Len(err) : err[i].type = "net.OpError" /\ err[i].timeout
               THEN "timeout" ELSE "network_error")
    ELSE IF errorsIs(err, Canceled) THEN "network_error"
    ELSE "unknown_error"

\* The last store call of p was an executed patch for a failed attempt.
FailurePatched(p) ==
    LET n == Len(send[p].storeCalls)
    IN /\ send[p].logID # 0 /\ n > 0
       /\ send[p].storeCalls[n] = StoreCall("UpdateRequestLog", send[p].logID, "failed", TRUE)
       /\ send[p].lastErr # << >>
       /\ Len(send[p].outcomes) > 0
       /\ send[p].outcomes[Len(send[p].outcomes)].err = send[p].lastErr
       /\ send[p].pc # "handle"

\* C10 as stated: the fail reason recorded for a failed attempt is the one
\* the taxonomy gives the error that attempt produced.
C10_AsStated ==
    \A p \in Procs :
        FailurePatched(p) => Row(p).FailReason = Taxonomy(send[p].lastErr)

----------------------------------------------------------------------------
(* C11..C20.                                                               *)

\* C11: Send has no partial success: when it has returned it gives either a
\* result or an error, never both and never neither; a result comes with a
\* nil error and has balanced {} and [] counts, and an error comes with a
\* nil result, so incomplete content and its usage do not reach the caller.
C11_NoPartialSuccess ==
    \A p \in Procs :
        send[p].pc = "returned" =>
            LET ret == send[p].ret
            IN /\ (ret.result # << >>) # (ret.err # << >>)
               /\ ret.result # << >> => Balanced(ret.result[1].Content)
               /\ ret.err # << >> => ret.result = << >>

\* C11 happens: a Send that received incomplete text returned an error.
C11_Witness ==
    \E p \in Procs :
        /\ Returned(p) /\ send[p].ret.err # << >>
        /\ \E i \in 1..Len(send[p].net) : Incomplete(send[p].net[i])

\* C12 as stated: when some attempt of a Send with a row produced incomplete
\* content and the Send ends in failure, the row holds the content and the
\* usage of such an attempt after Send returned, whatever the order of
\* incomplete responses and transport failures (the patches being executed).
C12_AsStated ==
    \A p \in Procs :
        (/\ Returned(p) /\ send[p].ret.err # << >>
         /\ send[p].logID # 0 /\ UpdatesOK(p)
         /\ \E i \in 1..Len(send[p].net) : Incomplete(send[p].net[i]))
        => \E i \in 1..Len(send[p].net) :
              /\ Incomplete(send[p].net[i])
              /\ Row(p).Response = TextOf(send[p].net[i])
              /\ Row(p).Usage = Reported(send[p].net[i].body)

\* What a Send requests and returns as a function of its arguments and of
\* what the network did, with no store in it: the requests sent and the
\* (result, err) returned.
SendOf(rules, h, prompt, urlOK, net) ==
    LET createErr == [result |-> << >>, err |-> Errorf("ai: create request", 0, <<ParseFailed>>)]
        good(r) == r.err = << >> /\ validateJSON(r.result[1].Content).valid
        r1 == IF urlOK THEN sendOnceDo(net[1]) ELSE createErr
        r2 == IF urlOK THEN sendOnceDo(net[2]) ELSE createErr
        h2 == IF r1.err = << >>
              THEN h \o <<Message("", "assistant", r1.result[1].Content),
                          Message("", "user", RetryPrompt)>>
              ELSE h
    IN [requests |->
           IF ~urlOK THEN << >>
           ELSE IF good(r1) THEN <<buildRequest(rules, h, prompt)>>
           ELSE <<buildRequest(rules, h, prompt), buildRequest(rules, h2, prompt)>>,
        ret |->
           IF good(r1) THEN [result |-> r1.result, err |-> << >>]
           ELSE IF good(r2) THEN [result |-> r2.result, err |-> << >>]
           ELSE IF r2.err # << >> THEN [result |-> << >>, err |-> r2.err]
           ELSE [result |-> << >>,
                 err |-> Errorf("ai: JSON validation failed after attempts", 0,
                                <<ErrProviderFailed>>)]]

\* The requests and the return value of the Send of p are those of SendOf.
AsSendOf(p) ==
    LET f == SendOf(send[p].rules, CallerHistory, send[p].prompt, g.urlOK, send[p].net)
    IN send[p].requests = f.requests /\ send[p].ret = f.ret

\* C13: whatever store calls fail, a Send with a store sends the requests
\* and returns the result or error that its arguments and the endpoint's
\* answers determine, the same as when no store call fails; and once
\* AddRequestLog has failed, that Send makes no UpdateRequestLog call.
C13_StoreErrorsSwallowed ==
    \A p \in Procs :
        /\ (Returned(p) /\ g.store) => AsSendOf(p)
        /\ (Len(send[p].storeCalls) >= 1 /\ ~send[p].storeCalls[1].ok) =>
              Len(send[p].storeCalls) = 1

\* C13 happens: a Send returned after two requests although AddRequestLog
\* failed, and another returned although a patch failed.
C13_Witness ==
    \E p \in Procs :
        /\ Returned(p) /\ g.store /\ Len(send[p].requests) = 2
        /\ ~StoreOK(p)

\* C14: with or without a store, a Send sends the requests and returns the
\* result or error that its arguments and the endpoint's answers determine,
\* so the two providers agree; the one without a store makes no store call
\* and leaves ai_request_logs as it was.
C14_StoreOptional ==
    \A p \in Procs :
        /\ Returned(p) => AsSendOf(p)
        /\ ~g.store =>
              /\ send[p].storeCalls = << >> /\ send[p].logID = 0
              /\ \A i \in 1..Len(ai_request_logs) : ai_request_logs[i] = PriorRow(i)

\* C14 happens: a provider without a store retried after incomplete text
\* and returned.
C14_Witness ==
    \E p \in Procs :
        /\ Returned(p) /\ ~g.store /\ Len(send[p].requests) = 2
        /\ FirstIncomplete(p)

\* The Send of p, on a provider with a store, is past its AddRequestLog call.
Logged(p) == g.store /\ send[p].prompt # << >> /\ send[p].pc \notin {"idle", "addlog"}

\* The row of p is the one Send asked for.
C15_Row(p) ==
    /\ SingleRow(p)
    /\ Row(p).AttemptNumber = 1
    /\ Row(p).SessionID = send[p].sessionID /\ Row(p).Prompt = send[p].prompt
    /\ Len(send[p].storeCalls) = 1 => Row(p).FinalStatus = "pending"

C17_Contents(h, prompt) ==
    [i \in 1..Len(h) |->
        [role |-> IF h[i].Role = "user" THEN "user" ELSE "model", text |-> h[i].Content]]
    \o << [role |-> "user", text |-> prompt] >>

\* C17: for a history of user and assistant turns, the contents of the
\* request are the history turns in their order, user as user and assistant
\* as model with the text unchanged, then one more user turn with the
\* prompt; the prompt is not merged into a last turn of role user.
C17_Contents1 ==
    \A p \in Procs :
        Len(send[p].requests) >= 1 =>
            LET c == send[p].requests[1].contents
            IN /\ c = C17_Contents(CallerHistory, send[p].prompt)
               /\ Len(c) = caller.len + 1
               /\ c[Len(c)] = [role |-> "user", text |-> send[p].prompt]

\* C17 happens: a request went out for a history whose last turn is a user
\* turn.
C17_Witness ==
    \E p \in Procs :
        /\ Len(send[p].requests) >= 1
        /\ caller.len > 0 /\ caller.arr[caller.len].Role = "user"

\* The texts C16 names as accepted.
C16_Named ==
    { << >>, <<"a">>, <<"}", "{">>, <<"]", "[">>, <<"{", "[", "}", "]">>,
      <<"\"", "{", "\"", "}">>, <<"\"", "}", "\"", "{">> }

\* C16: validateJSON accepts a text iff it has as many "{" as "}" and as
\* many "[" as "]" over the whole text, and reports incomplete_json
\* otherwise; the empty text, a text without brackets, texts whose counters
\* go negative or interleave and brackets inside quotes are no exception.
C16_Balance ==
    val.done =>
        /\ val.out.valid <=> Balanced(val.text)
        /\ val.out.failReason = IF Balanced(val.text) THEN "" ELSE "incomplete_json"
        /\ val.text \in C16_Named => val.out.valid

\* C16 happens: the interleaved text {[}] was validated and accepted.
C16_Witness ==
    /\ val.done /\ val.out.valid
    /\ val.text = <<"{", "[", "}", "]">>

\* The Usage the documentation maps the reported counters of p's turn to.
Expected(p) == Reported([usageMetadata |-> pg[p].reported[1]])

\* The rows of ai_messages that hold an assistant message.
AssistantRows == {i \in 1..Len(ai_messages) : ai_messages[i].role = "assistant"}

\* The caller's last store call was op and succeeded.
Did(p, op) == pg[p].ret # << >> /\ pg[p].ret[1].op = op /\ pg[p].ret[1].err = << >>

\* The assistant messages the caller's last store call returned.
Assistants(p) ==
    {i \in 1..Len(pg[p].ret[1].messages) : pg[p].ret[1].messages[i].Role = "assistant"}

SeqsOf(sid) ==
    LET InSession(r) == r.session_id = sid
        rows == SelectSeq(ai_messages, InSession)
    IN [i \in 1..Len(rows) |-> rows[i].seq]

\* C19: in every state and for every session, the sequence numbers of the
\* stored messages are exactly 1..n without gap or duplicate, and
\* ListMessages returns them in ascending order, whatever the interleaving
\* of the AddMessage calls on the session.
C19_Contiguous ==
    /\ \A sid \in SessionIDs :
          LET seqs == SeqsOf(sid)
              msgs == ListMessages(ai_messages, sid)
          IN /\ {seqs[i] : i \in 1..Len(seqs)} = 1..Len(seqs)
             /\ Len(msgs) = Len(seqs)
             /\ \A i \in 1..Len(msgs) : msgs[i].Seq = i
    /\ \A p \in Procs :
          Did(p, "ListMessages") =>
              \A i \in 1..Len(pg[p].ret[1].messages) : pg[p].ret[1].messages[i].Seq = i

\* C19 happens: two callers added to the same session at the same time, one
\* insert was rejected, and a ListMessages returned messages of both callers.
C19_Witness ==
    \E p, q \in Procs :
        /\ p # q
        /\ pg[p].ret # << >> /\ pg[p].ret[1].op = "AddMessage"
        /\ errorsIs(pg[p].ret[1].err, UniqueViolation)
        /\ Did(q, "ListMessages")
        /\ \E i, j \in 1..Len(pg[q].ret[1].messages) :
              /\ pg[q].ret[1].messages[i].ID[1] = p
              /\ pg[q].ret[1].messages[j].ID[1] = q

\* C20 as stated: concurrent Sends share no mutable state, so the history
\* the callers passed in is the same when a Send has returned, and when a
\* Send retried after incomplete text, its attempt-2 request carries its own
\* incomplete text as the model turn after the history.
C20_AsStated ==
    \A p \in Procs :
        /\ Returned(p) =>
              /\ send[p].history.shared => caller.len <= send[p].history.len
              /\ \A i \in 1..caller.len :
                    send[p].requests # << >> =>
                        send[p].requests[1].contents[i].text = caller.arr[i].Content
        /\ (Len(send[p].requests) = 2 /\ FirstIncomplete(p)) =>
              send[p].requests[2].contents[caller.len + 1] =
                  [role |-> "model", text |-> TextOf(send[p].net[1])]

----------------------------------------------------------------------------
(* C21..C30.                                                               *)

\* The session reference C21 names: the first history entry's when there is
\* a history, else the hint of the context, else none.
C21_Named(p) ==
    IF caller.len > 0 THEN caller.arr[1].SessionID
    ELSE IF send[p].ctxSession # << >> THEN send[p].ctxSession[1] ELSE ""

\* The same, except that a first entry without a session reference counts
\* as no history.
C21_Derived(p) ==
    IF caller.len > 0 /\ caller.arr[1].SessionID # "" THEN caller.arr[1].SessionID
    ELSE IF send[p].ctxSession # << >> THEN send[p].ctxSession[1] ELSE ""

DoneBeforeSecond(p) ==
    /\ Len(send[p].net) = 2
    /\ send[p].net[1].kind = "do" /\ send[p].net[1].cause \in {Canceled, DeadlineExceeded}

\* C22 as stated: an attempt that begins with a context that is canceled or
\* past its deadline obtains no response and is recorded in the row of its
\* Send as failed with the corresponding reason, timeout for a deadline and
\* network_error for a cancellation, and Send returns an error and no result.
C22_AsStated ==
    \A p \in Procs :
        (Returned(p) /\ DoneBeforeSecond(p)) =>
            /\ send[p].net[2].kind = "do" /\ send[p].outcomes[2].result = << >>
            /\ send[p].ret.result = << >> /\ send[p].ret.err # << >>
            /\ send[p].logID # 0 =>
                  /\ Row(p).FinalStatus = "failed"
                  /\ Row(p).FailReason =
                        IF send[p].net[2].cause = DeadlineExceeded THEN "timeout"
                        ELSE "network_error"

\* The caller's last store call was op.
Called(p, op) == pg[p].ret # << >> /\ pg[p].ret[1].op = op

\* C23 as stated: GetSession on an id that no session has fails with an
\* error that is ErrSessionNotFound for errors.Is, and GetSession on an
\* existing id returns the rules of the session's row.
C23_AsStated ==
    \A p \in Procs :
        (Called(p, "GetSession") /\ ~errorsIs(pg[p].ret[1].err, ConnectError)) =>
            LET r == pg[p].ret[1]
            IN IF r.id \in DOMAIN ai_sessions
               THEN /\ r.err = << >>
                    /\ r.session = <<Session(r.id, Rules(ai_sessions[r.id].system_prompt,
                                                         ai_sessions[r.id].output_schema,
                                                         ai_sessions[r.id].max_tokens))>>
               ELSE r.session = << >> /\ errorsIs(r.err, ErrSessionNotFound)

\* C24 as stated: AddMessage for a session id that no session has returns
\* an error and stores nothing, and in every state every row of ai_messages
\* and every row of ai_request_logs refers to a row of ai_sessions.  It holds
\* under the calls of the Store interface; DropSchema breaks it.
C24_Referential ==
    /\ \A i \in 1..Len(ai_messages) : ai_messages[i].session_id \in DOMAIN ai_sessions
    /\ \A i \in 1..Len(ai_request_logs) : ai_request_logs[i].SessionID \in DOMAIN ai_sessions
    /\ \A p \in Procs :
          (Called(p, "AddMessage") /\ pg[p].ret[1].sessionID \notin DOMAIN ai_sessions) =>
              /\ pg[p].ret[1].err # << >> /\ pg[p].ret[1].messages = << >>
              /\ \A i \in 1..Len(ai_messages) : ai_messages[i].id # <<p, pg[p].calls>>

\* AddMessage for an unknown session was rejected by the foreign key, in a
\* database that holds messages and request logs.
C24_Witness ==
    \E p \in Procs :
        /\ Called(p, "AddMessage")
        /\ errorsIs(pg[p].ret[1].err, ForeignKeyViolation)
        /\ ai_messages # << >> /\ ai_request_logs # << >>

\* The rows of ai_messages of a session.
RowsOf(sid) == {i \in 1..Len(ai_messages) : ai_messages[i].session_id = sid}

\* C25: when its query is executed, ListMessages returns no message and no
\* error for a session without messages, also for a session id that no
\* session has; otherwise it returns every message of the session and of
\* no other, ascending by sequence number.
C25_List ==
    \A p \in Procs :
        (Called(p, "ListMessages") /\ ~errorsIs(pg[p].ret[1].err, ConnectError)) =>
            LET r == pg[p].ret[1]
                n == Len(r.messages)
            IN /\ r.err = << >>
               /\ RowsOf(r.sessionID) = {} => r.messages = << >>
               /\ n = Cardinality(RowsOf(r.sessionID))
               /\ {r.messages[i].ID : i \in 1..n}
                     = {ai_messages[j].id : j \in RowsOf(r.sessionID)}
               /\ \A i \in 1..n : r.messages[i].SessionID = r.sessionID
               /\ \A i \in 1..n : \A j \in 1..n : i < j => r.messages[i].Seq < r.messages[j].Seq

\* C25 happens: ListMessages returned the one message of a session while
\* another session holds messages too.
C25_Witness ==
    \E p \in Procs :
        /\ Did(p, "ListMessages") /\ Len(pg[p].ret[1].messages) = 1
        /\ \E j \in 1..Len(ai_messages) : ai_messages[j].session_id # pg[p].ret[1].sessionID

\* C26: a successful AddRequestLog leaves a new last row with status
\* pending, empty fail reason, empty error message and the four usage
\* counters 0, whatever status, fail reason and usage the passed log has, and
\* returns the log with an identity that no other row has.
C26_Pending ==
    \A p \in Procs :
        (Called(p, "AddRequestLog") /\ pg[p].ret[1].err = << >>) =>
            LET r == pg[p].ret[1]
                n == Len(ai_request_logs)
                row == ai_request_logs[n]
            IN /\ n >= 1 /\ r.log # << >>
               /\ row.FinalStatus = "pending" /\ row.FailReason = ""
               /\ row.ErrorMessage = << >> /\ row.Usage = Usage(0, 0, 0, 0)
               /\ row.SessionID = r.arg.SessionID /\ row.Prompt = r.arg.Prompt
               /\ r.log[1].ID = row.ID /\ r.log[1].FinalStatus = "pending"
               /\ \A i \in 1..(n - 1) : ai_request_logs[i].ID # r.log[1].ID

\* C26 happens: AddRequestLog was passed a failed log with usage, next to an
\* existing row.
C26_Witness ==
    \E p \in Procs :
        /\ Called(p, "AddRequestLog") /\ pg[p].ret[1].err = << >>
        /\ pg[p].ret[1].arg.FinalStatus = "failed"
        /\ pg[p].ret[1].arg.Usage # Usage(0, 0, 0, 0)
        /\ Len(ai_request_logs) >= 2

\* The step is an UpdateRequestLog call of p.
UpdateStep(p) ==
    /\ pg'[p].calls = pg[p].calls + 1
    /\ pg'[p].ret # << >> /\ pg'[p].ret[1].op = "UpdateRequestLog"

\* C27: an UpdateRequestLog call creates no row; with an id that no row has
\* it leaves the rows as they are; with the id of a row it leaves the session
\* id, prompt and attempt number of that row and every other row as they are,
\* and when it is executed the row has the response, status, fail reason,
\* error message, retry count and usage passed.
C27_Frame ==
    [][\A p \in Procs :
          UpdateStep(p) =>
              LET id == pg'[p].ret[1].id
                  a == pg'[p].ret[1].arg
              IN /\ Len(ai_request_logs') = Len(ai_request_logs)
                 /\ \A i \in 1..Len(ai_request_logs) :
                       IF ai_request_logs[i].ID # id
                       THEN ai_request_logs'[i] = ai_request_logs[i]
                       ELSE /\ ai_request_logs'[i].ID = id
                            /\ ai_request_logs'[i].SessionID = ai_request_logs[i].SessionID
                            /\ ai_request_logs'[i].Prompt = ai_request_logs[i].Prompt
                            /\ ai_request_logs'[i].AttemptNumber
                                  = ai_request_logs[i].AttemptNumber
                            /\ pg'[p].ret[1].err = << >> =>
                                  ai_request_logs'[i] =
                                     [ai_request_logs[i] EXCEPT
                                        !.Response = a.response, !.FinalStatus = a.status,
                                        !.FailReason = a.failReason,
                                        !.ErrorMessage = a.errorMsg,
                                        !.RetryCount = a.retryCount,
                                        !.Usage = IF a.usage = << >> THEN Usage(0, 0, 0, 0)
                                                  ELSE a.usage[1]]
                 /\ ai_sessions' = ai_sessions /\ ai_messages' = ai_messages]_vars

\* C27 happens: UpdateRequestLog patched one of two rows; and it was called
\* with an id that no row has.
C27_Witness ==
    \E p \in Procs :
        /\ Called(p, "UpdateRequestLog") /\ pg[p].ret[1].err = << >>
        /\ Len(ai_request_logs) >= 2
        /\ pg[p].ret[1].id <= Len(ai_request_logs)
        /\ ai_request_logs[pg[p].ret[1].id].FinalStatus = "failed"
        /\ ai_request_logs[pg[p].ret[1].id].FailReason = "timeout"

\* A Migrate call has come to its return statement.
MigrateDone(p) == mig.call[p].pc = "done"

\* C28: a Migrate (CreateSchema is the same call) that follows a successful
\* Migrate with the same migration files executes no up SQL and leaves the
\* records of ai_migrations as they were; it returns no error unless the
\* database cannot be reached.
C28_Idempotent ==
    \A p \in Procs :
        (MigrateDone(p) /\ mig.migrated = <<mig.fs>>) =>
            /\ mig.call[p].ran = << >>
            /\ mig.ai_migrations = mig.call[p].before
            /\ mig.call[p].err # << >> => errorsIs(mig.call[p].err, ConnectError)

\* C28 happens: a second Migrate with the same two files returned nil.
C28_Witness ==
    \E p \in Procs :
        /\ MigrateDone(p) /\ mig.migrated = <<mig.fs>> /\ mig.call[p].err = << >>
        /\ mig.calls >= 2 /\ Len(mig.ai_migrations) = 2

\* The migrations whose record, when the call began, held another checksum
\* than their up SQL has now.
Revised(p) ==
    {n \in DOMAIN mig.fs :
        \E i \in 1..Len(mig.call[p].before) :
            /\ mig.call[p].before[i].Name = n
            /\ mig.call[p].before[i].Checksum # sha256(mig.fs[n])}

\* A statement of the call failed in the database.
StatementFailed(err) == errorsIs(err, ConnectError) \/ errorsIs(err, SQLRejected)

\* C29: a Migrate that began with an applied migration whose recorded
\* checksum differs from the checksum of its up SQL returns an error, the
\* checksum mismatch of such a migration unless a statement failed before
\* the loop came to it; it does not execute that migration's up SQL, executes
\* no up SQL of a migration after it in name order, and leaves that
\* migration's record and the records of the later ones as they were.
C29_Detected ==
    \A p \in Procs : MigrateDone(p) =>
        \A n \in Revised(p) :
            /\ mig.call[p].err # << >>
            /\ \/ \E k \in Revised(p) : mig.call[p].err = ChecksumMismatch(k)
               \/ StatementFailed(mig.call[p].err)
            /\ \A j \in 1..Len(mig.call[p].ran) : mig.call[p].ran[j] < n
            /\ mig.fs[n] \notin mig.schema
            /\ \A j \in 1..Len(mig.ai_migrations) :
                  mig.ai_migrations[j].Name >= n =>
                      /\ j <= Len(mig.call[p].before)
                      /\ mig.call[p].before[j] = mig.ai_migrations[j]

\* C29 happens: Migrate returned the checksum mismatch of migration 1, and
\* migration 2, which is pending, was not applied.
C29_Witness ==
    \E p \in Procs :
        /\ MigrateDone(p) /\ mig.call[p].err = ChecksumMismatch(1)
        /\ 2 \in DOMAIN mig.fs /\ 2 \notin Recorded(mig.ai_migrations)

\* The migrations whose schema change is in the database.
InSchema == {u.migration : u \in mig.schema}

\* Migrate returned the error of its up SQL or of its INSERT.
ApplyFailed(p) ==
    /\ MigrateDone(p) /\ mig.call[p].err # << >>
    /\ mig.call[p].err[1].msg \in {"ai: run migration", "ai: record migration"}

\* C30: in every state the schema changes in the database are those of the
\* recorded migrations, each with the checksum recorded.  When the up SQL or
\* the INSERT of a migration fails, Migrate returns an error naming it, the
\* migration has neither schema change nor record, the migrations the call
\* applied before it are recorded after the records the call found, and no
\* up SQL of a later migration was executed.
C30_Atomic ==
    /\ InSchema = Recorded(mig.ai_migrations)
    /\ \A i \in 1..Len(mig.ai_migrations) :
          \E u \in mig.schema : /\ u.migration = mig.ai_migrations[i].Name
                                /\ sha256(u) = mig.ai_migrations[i].Checksum
    /\ \A p \in Procs : ApplyFailed(p) =>
          LET n == mig.call[p].err[1].code
              earlier == SelectSeq(mig.call[p].ran, LAMBDA k : k # n)
          IN /\ n = mig.call[p].migrations[mig.call[p].i].Name
             /\ n \notin InSchema /\ n \notin Recorded(mig.ai_migrations)
             /\ \A j \in 1..Len(mig.call[p].ran) : mig.call[p].ran[j] <= n
             /\ Len(mig.ai_migrations) = Len(mig.call[p].before) + Len(earlier)
             /\ \A j \in 1..Len(mig.call[p].before) : mig.ai_migrations[j] = mig.call[p].before[j]
             /\ \A j \in 1..Len(earlier) :
                   mig.ai_migrations[Len(mig.call[p].before) + j].Name = earlier[j]

\* C30 happens: in one call migration 1 was applied and the INSERT of
\* migration 2 failed after its up SQL had been executed.
C30_Witness ==
    \E p \in Procs :
        /\ ApplyFailed(p) /\ mig.call[p].err[1].msg = "ai: record migration"
        /\ mig.call[p].ran = <<1, 2>>
        /\ Recorded(mig.ai_migrations) = {1}

----------------------------------------------------------------------------
(* C31..C40.                                                               *)

\* A Rollback call has come to its return statement.
Rolled(p) == mig.call[p].pc = "rolled"

\* The records with the highest id among records (none or one).
Newest(records) ==
    {r \in {records[i] : i \in 1..Len(records)} :
        \A i \in 1..Len(records) : records[i].ID <= r.ID}

\* The last call that returned was a Rollback that returned nil.
RolledBack == mig.ret # << >> /\ mig.ret[1].op = "Rollback" /\ mig.ret[1].err = << >>

\* C31: the schema changes in the database stay those of the recorded
\* migrations.  A Rollback that returns nil has executed the down SQL of the
\* record with the highest id and of no other, and has removed that record
\* and no other; a Rollback that returns an error leaves the records as they
\* were; with no record, and with a newest record whose migration has no
\* down SQL, Rollback returns an error and executes no down SQL.  A Migrate
\* that returns nil after a Rollback that returned nil has executed the up
\* SQL of the migration rolled back and has recorded it.
C31_Reverts ==
    /\ InSchema = Recorded(mig.ai_migrations)
    /\ \A p \in Procs : Rolled(p) =>
          LET c == mig.call[p]
              newest == Newest(c.before)
          IN /\ c.err = << >> =>
                   \E r \in newest :
                       /\ r.Name \in mig.downs
                       /\ c.ran = <<Down(r.Name)>>
                       /\ mig.ai_migrations = SelectSeq(c.before, LAMBDA x : x # r)
                       /\ Len(mig.ai_migrations) = Len(c.before) - 1
                       /\ r.Name \notin InSchema
             /\ c.err # << >> => mig.ai_migrations = c.before
             /\ (newest = {} \/ \E r \in newest : r.Name \notin mig.downs) =>
                   c.err # << >> /\ c.ran = << >>
             /\ newest = {} =>
                   errorsIs(c.err, ErrNoRows) \/ errorsIs(c.err, ConnectError)
             /\ (\E r \in newest : r.Name \notin mig.downs) =>
                   \/ \E r \in newest : c.err = NoDownMigration(r.Name)
                   \/ errorsIs(c.err, ConnectError)
    /\ \A p \in Procs : (MigrateDone(p) /\ mig.call[p].err = << >> /\ RolledBack) =>
          LET n == mig.ret[1].lastMigration[1].Name
          IN /\ \E j \in 1..Len(mig.call[p].ran) : mig.call[p].ran[j] = n
             /\ n \in Recorded(mig.ai_migrations) /\ n \in InSchema

\* C31 happens: the newer of two recorded migrations was rolled back, the
\* older one stayed, and the Migrate that followed applied it again.
C31_Witness ==
    \E p \in Procs :
        /\ MigrateDone(p) /\ mig.call[p].err = << >> /\ RolledBack
        /\ Len(mig.call[p].before) = 1 /\ Len(mig.ai_migrations) = 2
        /\ mig.call[p].ran # << >>

\* The last call that returned was a DropSchema that returned nil, and no
\* call has begun since.
Dropped ==
    /\ mig.ret # << >> /\ mig.ret[1].op = "DropSchema" /\ mig.ret[1].err = << >>
    /\ \A p \in Procs : mig.call[p].pc = "idle"

\* C32 as stated: after a successful DropSchema none of the four tables
\* exists, no row of them is left, and the schema the following CreateSchema
\* applies the migrations onto is empty.
C32_AsStated ==
    Dropped =>
        /\ Existing \cap {"ai_sessions", "ai_messages", "ai_request_logs", "ai_migrations"} = {}
        /\ DOMAIN ai_sessions = {} /\ ai_messages = << >>
        /\ ai_request_logs = << >> /\ mig.ai_migrations = << >>
        /\ mig.schema = {}

\* The attempts of p that got a response with a status code.
Answered(p) == {i \in 1..Len(send[p].net) : send[p].net[i].kind = "resp"}

\* sendOnce failed attempt i of p for its status code.
StatusFailure(p, i) ==
    LET err == send[p].outcomes[i].err
    IN /\ err # << >> /\ err[1].msg = "status"
       /\ err[1].code = send[p].net[i].StatusCode
       /\ errorsIs(err, ErrProviderFailed)

\* sendOnce gave attempt i of p what parseResponse made of the body.
Parsed(p, i) ==
    LET r == send[p].outcomes[i]
        body == send[p].net[i].body
    IN /\ r.err # << >> => r.err[1].msg \in {"ai: parse response", "empty response from Gemini"}
       /\ r.err = << >> => r.result[1].Content = body.candidates[1][1]

\* C33 as stated: an answered attempt fails for its status exactly when the
\* status is outside 200..299, and then with a ProviderFailed error that
\* carries the status code; with a status inside, the body is parsed.
C33_AsStated ==
    \A p \in Procs : \A i \in Answered(p) :
        IF send[p].net[i].StatusCode \in 200..299
        THEN ~StatusFailure(p, i) /\ Parsed(p, i)
        ELSE StatusFailure(p, i)

\* C33 amended: an answered attempt fails for its status exactly when the
\* status is not 200 (201 and the other 2xx statuses fail too), and then
\* with a ProviderFailed error that carries the status code; with status
\* 200 the body is parsed.
C33_Status200 ==
    \A p \in Procs : \A i \in Answered(p) :
        IF send[p].net[i].StatusCode = 200
        THEN ~StatusFailure(p, i) /\ Parsed(p, i)
        ELSE StatusFailure(p, i)

\* C33 happens: an attempt was answered with 201 and failed for the status,
\* and another with 200 whose body was parsed into a result.
C33_Witness ==
    \E p \in Procs : \E i, j \in Answered(p) :
        /\ send[p].net[i].StatusCode = 201 /\ StatusFailure(p, i)
        /\ send[p].net[j].StatusCode = 200 /\ send[p].outcomes[j].err = << >>

\* The answer to attempt i of p came with status 200 and a body that is
\* JSON and has no candidate, or a first candidate without parts.
EmptyResponse(p, i) ==
    LET o == send[p].net[i]
    IN /\ o.kind = "resp" /\ o.StatusCode = 200 /\ o.body.json
       /\ \/ o.body.candidates = << >>
          \/ o.body.candidates[1] = << >>

\* Send handles the empty response its current attempt got.
HandlesEmpty(p) ==
    /\ send[p].pc = "handle" /\ send'[p] # send[p]
    /\ Len(send[p].net) = send[p].attempt
    /\ EmptyResponse(p, send[p].attempt)

\* C34: Send handles a response without candidate or parts as an error that
\* is ErrProviderFailed for errors.Is: the patch it makes, if it logs, has
\* status failed and not pending, and an executed one leaves the row failed;
\* the history and the caller's array stay as they are; after attempt 1
\* attempt 2 follows, and after attempt 2 Send returns that error and no
\* result, as after a transport failure.
C34_EmptyResponse ==
    [][\A p \in Procs :
          HandlesEmpty(p) =>
              LET n == Len(send'[p].storeCalls)
              IN /\ errorsIs(send[p].err, ErrProviderFailed)
                 /\ send[p].result = << >>
                 /\ send'[p].history = send[p].history /\ caller' = caller
                 /\ IF g.store /\ send[p].logID # 0
                    THEN /\ n = Len(send[p].storeCalls) + 1
                         /\ send'[p].storeCalls[n].op = "UpdateRequestLog"
                         /\ send'[p].storeCalls[n].status = "failed"
                         /\ send'[p].storeCalls[n].ok =>
                               /\ ai_request_logs'[send[p].logID].FinalStatus = "failed"
                               /\ ai_request_logs'[send[p].logID].Response = << >>
                    ELSE send'[p].storeCalls = send[p].storeCalls
                 /\ send[p].attempt = 1 =>
                       send'[p].pc = "attempt" /\ send'[p].attempt = 2
                 /\ send[p].attempt = 2 =>
                       /\ send'[p].pc = "returned"
                       /\ send'[p].ret.result = << >>
                       /\ send'[p].ret.err = send[p].err]_vars

\* C34 happens: a logging Send got a response without candidate on attempt
\* 1, sent the same request again, got a first candidate without parts, and
\* returned with its row patched to failed.
C34_Witness ==
    \E p \in Procs :
        /\ send[p].pc = "returned" /\ Len(send[p].net) = 2
        /\ EmptyResponse(p, 1) /\ send[p].net[1].body.candidates = << >>
        /\ EmptyResponse(p, 2) /\ send[p].net[2].body.candidates # << >>
        /\ send[p].requests[2] = send[p].requests[1]
        /\ send[p].logID # 0 /\ UpdatesOK(p)
        /\ ai_request_logs[send[p].logID].FinalStatus = "failed"

\* The schema strings json.Unmarshal stores in a map without error.
ParsedSchemas == {"obj", "null"}

\* What a Send does after its attempt i, from what sendOnce returned: it
\* returns the result, retries, or gives up.
After(p, i) ==
    LET o == send[p].outcomes[i]
    IN IF o.err = << >> /\ validateJSON(o.result[1].Content).valid THEN "return"
       ELSE IF i < maxAttempts THEN "retry"
       ELSE "fail"

StoreSucceeds(p) == g.store /\ send[p].storeCalls # << >> /\ StoreOK(p)

\* C36: with a store whose calls all succeed, the row of a Send that has
\* returned is not pending: it is success iff Send returned a result and
\* failed iff Send returned an error, and Send returns one of the two.  The
\* patch to success is the last store call of its Send, and a row that is
\* success is not written by any step.
C36_FinalStatus ==
    /\ \A p \in Procs :
          StoreSucceeds(p) /\ Returned(p) =>
              /\ send[p].logID \in DOMAIN ai_request_logs
              /\ Row(p).FinalStatus # StatusPending
              /\ Row(p).FinalStatus = StatusSuccess <=> send[p].ret.result # << >>
              /\ Row(p).FinalStatus = StatusFailed <=> send[p].ret.err # << >>
              /\ send[p].ret.result # << >> <=> send[p].ret.err = << >>
    /\ \A p \in Procs : \A i \in 1..Len(send[p].storeCalls) :
          send[p].storeCalls[i].status = StatusSuccess =>
              /\ i = Len(send[p].storeCalls)
              /\ send[p].pc = "returned"

\* C36 happens: with a store whose calls all succeeded, attempt 1 failed in
\* transport and patched the row to failed, attempt 2 was valid and patched
\* it to success, and Send returned the result.
C36_Witness ==
    \E p \in Procs :
        /\ StoreSucceeds(p) /\ Returned(p)
        /\ Len(send[p].net) = 2 /\ send[p].net[1].kind = "do"
        /\ [i \in 1..Len(send[p].storeCalls) |-> send[p].storeCalls[i].status]
              = <<StatusPending, StatusFailed, StatusSuccess>>
        /\ Row(p).FinalStatus = StatusSuccess
        /\ send[p].ret.result # << >> /\ send[p].ret.err = << >>

\* p makes a patch in this step: an UpdateRequestLog call joins its trace.
Patches(p) ==
    /\ Len(send'[p].storeCalls) = Len(send[p].storeCalls) + 1
    /\ send'[p].storeCalls[Len(send'[p].storeCalls)].op = "UpdateRequestLog"

\* A Send that logs has returned and each of its patches was executed.
LoggedReturn(p) == Returned(p) /\ g.store /\ send[p].logID # 0 /\ UpdatesOK(p)

IncompleteOutput(p, i) ==
    /\ send[p].outcomes[i].err = << >>
    /\ ~validateJSON(send[p].outcomes[i].result[1].Content).valid

\* The turns of the request of attempt i that come from the history.
HistoryTurns(p, i) ==
    SubSeq(send[p].requests[i].contents, 1, Len(send[p].requests[i].contents) - 1)

\* C38: when attempt 1 failed without content (sendOnce returned an error:
\* transport failure, status other than 200, unparsable or empty response)
\* the request of attempt 2 is the request of attempt 1.  The history of a
\* Send differs from the one it was called with only after an attempt 1
\* that returned incomplete output, and then the request of attempt 2 has
\* the turns of attempt 1 followed by that output as a model turn, the
\* retry prompt as a user turn, and the prompt.
C38_History ==
    \A p \in Procs :
        LET s == send[p]
            given == Slice(TRUE, caller.len, << >>)
        IN /\ s.pc # "idle" /\ s.history # given =>
                 /\ Len(s.outcomes) >= 1 /\ IncompleteOutput(p, 1)
                 /\ s.attempt = 2
           /\ Len(s.requests) = 2 /\ s.outcomes[1].err # << >> =>
                 /\ s.requests[2] = s.requests[1]
                 /\ s.history = given
           /\ Len(s.requests) = 2 /\ s.outcomes[1].err = << >> =>
                 /\ IncompleteOutput(p, 1)
                 /\ HistoryTurns(p, 2) =
                       HistoryTurns(p, 1)
                       \o <<Turn("model", s.outcomes[1].result[1].Content),
                             Turn("user", RetryPrompt)>>
                 /\ [s.requests[2] EXCEPT !.contents = << >>]
                       = [s.requests[1] EXCEPT !.contents = << >>]

\* C38 happens: a Send called with a history of two turns got status 500
\* on attempt 1 and sent the same request again.
C38_Witness ==
    \E p \in Procs :
        /\ Len(send[p].requests) = 2 /\ caller.len = 2
        /\ send[p].net[1].kind = "resp" /\ send[p].net[1].StatusCode = 500
        /\ send[p].outcomes[1].err # << >>
        /\ Len(send[p].requests[1].contents) = 3
        /\ send[p].requests[2] = send[p].requests[1]

\* The migration list, ordered by name.
MigrationList == loadMigrations(mig.fs, mig.downs)

\* C39: with the migration files fixed, in every state Migrate and Rollback
\* calls reach, calls that failed included, the names recorded in
\* ai_migrations are those of the first k migrations of the list ordered by
\* name, k being the number of records, no name is recorded twice, and of
\* two records the one earlier in the list has the smaller id.
C39_Prefix ==
    LET table == mig.ai_migrations
        k == Len(table)
    IN /\ k <= Len(MigrationList)
       /\ Recorded(table) = {MigrationList[i].Name : i \in 1..k}
       /\ \A i, j \in 1..k : i # j => table[i].Name # table[j].Name
       /\ \A i, j \in 1..k :
             table[i].Name < table[j].Name <=> table[i].ID < table[j].ID

\* C39 happens: of two migrations both are recorded, the second one again
\* after a Rollback, with an id the first two records did not have, by a
\* Migrate that returned nil.
C39_Witness ==
    /\ Len(MigrationList) = 2 /\ Len(mig.ai_migrations) = 2
    /\ \E i \in 1..2 :
          /\ mig.ai_migrations[i].Name = MigrationList[2].Name
          /\ mig.ai_migrations[i].ID = 3
    /\ mig.ret = <<[op |-> "Migrate", err |-> << >>]>>

\* Migrate of p returned the unique violation of its INSERT: another call
\* recorded the migration first.
LostRace(p) ==
    /\ MigrateDone(p) /\ mig.call[p].err # << >>
    /\ errorsIs(mig.call[p].err, RecordedTwice)

\* Both calls have come to their return statement and no statement failed
\* for another reason than the race.
BothDone ==
    \A p \in Procs : MigrateDone(p) /\ ~StatementFailed(mig.call[p].err)

\* C40: with two Migrate calls running concurrently, in every state no
\* name is recorded twice in ai_migrations, the records are those of a
\* prefix of the migration list, and the schema changes in the database are
\* those of the recorded migrations.  A call that finds a migration recorded
\* by the other one when it inserts returns the error of the INSERT, with
\* its transaction rolled back and no later up SQL executed.  When both
\* calls have returned and no statement failed otherwise, every migration
\* is recorded once, as after one Migrate alone, and the call that recorded
\* the last migration returned nil.
C40_Concurrent ==
    LET table == mig.ai_migrations
    IN /\ \A i, j \in 1..Len(table) : i # j => table[i].Name # table[j].Name
       /\ Recorded(table) = {MigrationList[i].Name : i \in 1..Len(table)}
       /\ InSchema = Recorded(table)
       /\ \A p \in Procs : LostRace(p) =>
             LET n == mig.call[p].migrations[mig.call[p].i].Name
             IN /\ mig.call[p].tx = << >>
                /\ mig.call[p].err[1].msg = "ai: record migration"
                /\ n \in Recorded(table)
                /\ \A j \in 1..Len(mig.call[p].ran) : mig.call[p].ran[j] <= n
       /\ BothDone =>
             /\ Recorded(table) = DOMAIN mig.fs
             /\ Len(table) = Cardinality(DOMAIN mig.fs)
             /\ \E p \in Procs : mig.call[p].err = << >>

\* C40 happens: both calls began the transaction of the first of two
\* migrations; one recorded both migrations and returned nil, the other
\* returned the unique violation of its INSERT for the first.
C40_Witness ==
    \E p, q \in Procs :
        /\ p # q /\ MigrateDone(p) /\ MigrateDone(q)
        /\ mig.call[p].err = << >> /\ mig.call[p].ran = <<1, 2>>
        /\ LostRace(q) /\ mig.call[q].ran = <<1>>
        /\ Len(mig.ai_migrations) = 2 /\ mig.calls = 2

====
